---- MODULE Spec2Model ----
(***************************************************************************)
(* The per-camera streaming / inference pipeline (CameraStream) and its    *)
(* registry (CameraManager) of app/services/camera_manager.py, with the    *)
(* request handlers of app/detection/routes.py and app/auth/routes.py      *)
(* that drive them.                                                        *)
(*                                                                         *)
(* Threads of the program: one per request handler in flight (Clients),    *)
(* and per CameraStream object one capture thread and one inference        *)
(* thread.  Every action below is one step of one thread; a step is a      *)
(* stretch of code between two points where another thread can observe or  *)
(* change the shared state the stretch uses.                               *)
(***************************************************************************)
EXTENDS Integers, Sequences, FiniteSets, TLC

(***************************************************************************)
(* Bounds of the model.                                                    *)
(***************************************************************************)
NumCameras == 2      \* rows of the cameras table
NumClients == 2      \* request handlers that can be in flight together
MaxStreams == 2      \* CameraStream objects constructed in one run
MaxFrames  == 3      \* frames a video source delivers in one run
MaxNow     == 17     \* last instant of the wall clock, in seconds
MaxPending == 2      \* largest _pending_count followed
MaxRequired == 2     \* largest stable_required a stream is configured with
NumViewers == 2      \* frames() generators that can be alive together
num_frames == 2      \* window size of the classifier (CrimeModel.num_frames, 16)

(***************************************************************************)
(* Program constants.  Confidences are in hundredths, times in seconds.    *)
(***************************************************************************)
max_failures    == 50     \* _capture_loop
conf_threshold  == 75     \* CameraStream.conf_threshold = 0.75
display_floor   == 50     \* _post_process_label: conf >= 0.5
stable_required == 1      \* CameraStream.stable_required
alert_cooldown  == 8      \* CameraStream.alert_cooldown = 8.0
\* the wall clock at start-up: time.time() is at least alert_cooldown past
\* the initial _last_alert_ts = 0.0
StartNow        == alert_cooldown

Cameras == 1..NumCameras
Clients == 1..NumClients
Streams == 1..MaxStreams
Viewers == 1..NumViewers
None    == 0              \* Python's None where the other values are positive

NormalLabel == "Normal Videos"

\* the local 'frame' of a generator before its first assignment
NoFrame == [of |-> None, own |-> FALSE, text |-> <<>>]

VARIABLES
    \* CameraManager
    streams,          \* self.streams: the dict, as its entries in insertion order
    nstreams,         \* CameraStream objects constructed so far (object identity)
    \* CameraStream, one entry per object
    camera_id,        \* self.camera_id (None: not constructed)
    running,          \* self.running
    capture,          \* self.capture: "None", or the state of the VideoCapture
    capture_thread,   \* where the capture thread is in _capture_loop
    inference_thread, \* where the inference thread is in _inference_loop
    fail_count,       \* local of _capture_loop
    frame_counter,    \* local of _capture_loop
    last_frame,       \* self._last_frame (None, or the number of the frame)
    clip_buffer,      \* self.clip_buffer
    frames_for_model, \* local of _inference_loop: the snapshot
    raw,              \* local of _inference_loop: (raw_label, raw_conf)
    latest_detection, \* self.latest_detection
    pending_label,    \* self._pending_label
    pending_count,    \* self._pending_count
    last_alert_ts,    \* self._last_alert_ts
    required,         \* self.stable_required
    \* the request handlers in flight
    clPc,             \* where the handler is
    clCam,            \* the camera of the request
    clStream,         \* local 'stream' of get_or_create_stream / stop_all
    clIter,           \* stop_all's iterator over self.streams.values()
    lastRet,          \* what the last request to end got: a stream, or an exception
    \* the world outside the process
    now,              \* the wall clock
    detections,       \* rows of the detections table, in commit order
    emails,           \* alert e-mails sent, in order
    \* history (written, never read, by the program)
    opened,           \* per stream: cv2.VideoCapture(...) calls
    released,         \* per stream: capture.release() calls
    workers,          \* per stream: threads started by start()
    torn,             \* streams stopped by a stop_all that has returned
    observed,         \* per stream: what _maybe_log_alert got in the tick just ended
    trail,            \* per stream: the last observations, where a specification keeps them
    \* the viewers: generators made by frames(), one per /stream response
    viewPc,           \* where the generator is
    viewStream,       \* its self (None: no generator)
    viewFrame,        \* local 'frame': the viewer's copy of the latest frame
    viewDet,          \* local 'detection'
    viewOut,          \* the last chunk yielded: the frame and the text drawn on it
    drawn,            \* the frames held by the pipeline whose pixels a viewer wrote on
    stale,            \* chunks the generator yielded with the running flag false
    \* synchronisation
    lock,             \* self.lock of each stream: None, or the thread that holds it
    unlocked,         \* the accesses to the fields of a stream made outside self.lock
    cls_lock,         \* CameraManager._lock: None, or the handler that holds it
    instance,         \* CameraManager._instance (None: not constructed)
    ninstances        \* CameraManager objects constructed so far

mgrVars   == <<streams, nstreams>>
capVars   == <<capture_thread, fail_count, frame_counter, last_frame, clip_buffer>>
infVars   == <<inference_thread, frames_for_model, raw, latest_detection>>
alertVars == <<pending_label, pending_count, last_alert_ts, required, detections, emails>>
clVars    == <<clPc, clCam, clStream, clIter, lastRet>>
histVars  == <<opened, released, workers, torn, observed, trail>>
viewVars  == <<viewPc, viewStream, viewFrame, viewDet, viewOut, drawn, stale>>
syncVars  == <<lock, unlocked, cls_lock, instance, ninstances>>
strVars   == <<camera_id, running, capture, capVars, infVars, alertVars>>
vars == <<streams, nstreams, camera_id, running, capture, capture_thread,
          inference_thread, fail_count, frame_counter, last_frame, clip_buffer,
          frames_for_model, raw, latest_detection, pending_label, pending_count,
          last_alert_ts, required, clPc, clCam, clStream, clIter, lastRet, now,
          detections, emails, opened, released, workers, torn, observed, trail,
          viewPc, viewStream, viewFrame, viewDet, viewOut, drawn, stale,
          lock, unlocked, cls_lock, instance, ninstances>>

(***************************************************************************)
(* The dict self.streams: Dict[int, CameraStream].                         *)
(***************************************************************************)
\* camera.id in self.streams
HasKey(d, k) == \E i \in 1..Len(d) : d[i].key = k

\* self.streams[k], for a key that is present
GetItem(d, k) == d[CHOOSE i \in 1..Len(d) : d[i].key = k].val

\* self.streams[k] = v: a present key keeps its place, a new one goes last
SetItem(d, k, v) ==
    IF HasKey(d, k)
    THEN [i \in 1..Len(d) |-> IF d[i].key = k THEN [key |-> k, val |-> v] ELSE d[i]]
    ELSE Append(d, [key |-> k, val |-> v])

\* the objects the dict holds
Values(d) == {d[i].val : i \in 1..Len(d)}

NoRet == [op |-> "none", cam |-> None, status |-> "none", val |-> None]

\* no iterator; 'prior' and 'seen' are history: the objects the dict held when
\* stop_all was entered, and those its loop has stopped
NoIter == [idx |-> 0, used |-> 0, prior |-> {}, seen |-> {}]

Init ==
    /\ streams = <<>>
    /\ nstreams = 0
    /\ camera_id = [p \in Streams |-> None]
    /\ running = [p \in Streams |-> FALSE]
    /\ capture = [p \in Streams |-> "None"]
    /\ capture_thread = [p \in Streams |-> "none"]
    /\ inference_thread = [p \in Streams |-> "none"]
    /\ fail_count = [p \in Streams |-> 0]
    /\ frame_counter = [p \in Streams |-> 0]
    /\ last_frame = [p \in Streams |-> None]
    /\ clip_buffer = [p \in Streams |-> <<>>]
    /\ frames_for_model = [p \in Streams |-> <<>>]
    /\ raw = [p \in Streams |-> <<"", 0>>]
    /\ latest_detection = [p \in Streams |-> <<>>]
    /\ pending_label = [p \in Streams |-> ""]
    /\ pending_count = [p \in Streams |-> 0]
    /\ last_alert_ts = [p \in Streams |-> 0]
    /\ required = [p \in Streams |-> stable_required]
    /\ clPc = [t \in Clients |-> "idle"]
    /\ clCam = [t \in Clients |-> None]
    /\ clStream = [t \in Clients |-> None]
    /\ clIter = [t \in Clients |-> NoIter]
    /\ lastRet = NoRet
    /\ now = StartNow
    /\ detections = <<>>
    /\ emails = <<>>
    /\ opened = [p \in Streams |-> 0]
    /\ released = [p \in Streams |-> 0]
    /\ workers = [p \in Streams |-> 0]
    /\ torn = {}
    /\ observed = [p \in Streams |-> <<>>]
    /\ trail = [p \in Streams |-> <<>>]
    /\ viewPc = [v \in Viewers |-> "none"]
    /\ viewStream = [v \in Viewers |-> None]
    /\ viewFrame = [v \in Viewers |-> NoFrame]
    /\ viewDet = [v \in Viewers |-> <<>>]
    /\ viewOut = [v \in Viewers |-> <<>>]
    /\ drawn = {}
    /\ stale = [v \in Viewers |-> 0]
    /\ lock = [p \in Streams |-> None]
    /\ unlocked = {}
    /\ cls_lock = None
    /\ instance = None
    /\ ninstances = 0

(***************************************************************************)
(* CameraStream.start and CameraStream.stop.                               *)
(***************************************************************************)
\* start(): nothing if already running; else set the flag and start the capture
\* thread and the inference thread
Start(p) ==
    IF running[p]
    THEN UNCHANGED <<running, capture_thread, inference_thread, workers>>
    ELSE /\ running' = [running EXCEPT ![p] = TRUE]
         /\ capture_thread' = [capture_thread EXCEPT ![p] = "open"]
         /\ inference_thread' = [inference_thread EXCEPT ![p] = "loop"]
         /\ workers' = [workers EXCEPT ![p] = @ + 2]

\* stop(), up to its test of self.capture: self.running = False
StopEnter(p) == running' = [running EXCEPT ![p] = FALSE]

\* stop(): self.capture.release(), for a handle that is still there
StopRelease(p) ==
    /\ capture' = [capture EXCEPT ![p] = "Released"]
    /\ released' = [released EXCEPT ![p] = @ + 1]

\* stop(): self.capture = None
StopClear(p) == capture' = [capture EXCEPT ![p] = "None"]

(***************************************************************************)
(* The request handlers.  stream and camera_stats call                     *)
(* get_or_create_stream, logout calls stop_all, stop_camera calls          *)
(* stop_stream.  A handler that raises ends the request (HTTP 500).        *)
(***************************************************************************)
Ret(o, c, s, v) == [op |-> o, cam |-> c, status |-> s, val |-> v]

\* GocCheck with the test lost: every call constructs a stream
GocCheckNoLookup(t, c) ==
    /\ clPc[t] = "idle"
    /\ clCam' = [clCam EXCEPT ![t] = c]
    /\ clPc' = [clPc EXCEPT ![t] = "goc_miss"]
    /\ UNCHANGED <<mgrVars, camera_id, running, capture, capVars, infVars, alertVars,
                   clStream, clIter, lastRet, now, viewVars, syncVars, histVars>>

\* get_or_create_stream: if camera.id in self.streams
GocCheck(t, c) ==
    /\ clPc[t] = "idle"
    /\ clCam' = [clCam EXCEPT ![t] = c]
    /\ clPc' = [clPc EXCEPT ![t] = IF HasKey(streams, c) THEN "goc_hit" ELSE "goc_miss"]
    /\ UNCHANGED <<mgrVars, camera_id, running, capture, capVars, infVars, alertVars,
                   clStream, clIter, lastRet, now, viewVars, syncVars, histVars>>

\* get_or_create_stream: return self.streams[camera.id]
GocReturn(t) ==
    /\ clPc[t] = "goc_hit"
    /\ clPc' = [clPc EXCEPT ![t] = "idle"]
    /\ clCam' = [clCam EXCEPT ![t] = None]
    /\ lastRet' = IF HasKey(streams, clCam[t])
                  THEN Ret("get_or_create", clCam[t], "ok", GetItem(streams, clCam[t]))
                  ELSE Ret("get_or_create", clCam[t], "KeyError", None)
    /\ UNCHANGED <<mgrVars, camera_id, running, capture, capVars, infVars, alertVars,
                   clStream, clIter, now, viewVars, syncVars, histVars>>

\* get_or_create_stream: stream = CameraStream(...); self.streams[camera.id] = stream
GocRegister(t) ==
    /\ clPc[t] = "goc_miss"
    /\ nstreams < MaxStreams
    /\ LET p == nstreams + 1 IN
        /\ nstreams' = p
        /\ camera_id' = [camera_id EXCEPT ![p] = clCam[t]]
        /\ streams' = SetItem(streams, clCam[t], p)
        /\ clStream' = [clStream EXCEPT ![t] = p]
    /\ clPc' = [clPc EXCEPT ![t] = "goc_start"]
    /\ UNCHANGED <<running, capture, capVars, infVars, alertVars,
                   clCam, clIter, lastRet, now, viewVars, syncVars, histVars>>

\* get_or_create_stream: stream.start(); return stream
GocStart(t) ==
    /\ clPc[t] = "goc_start"
    /\ Start(clStream[t])
    /\ clPc' = [clPc EXCEPT ![t] = "idle"]
    /\ clCam' = [clCam EXCEPT ![t] = None]
    /\ clStream' = [clStream EXCEPT ![t] = None]
    /\ lastRet' = Ret("get_or_create", clCam[t], "ok", clStream[t])
    /\ UNCHANGED <<mgrVars, camera_id, capture, fail_count, frame_counter, last_frame,
                   clip_buffer, frames_for_model, raw, latest_detection, alertVars,
                   clIter, now, viewVars, syncVars, opened, released, torn, observed, trail>>

\* stop_all: the iterator of 'for stream in self.streams.values()'
SaBegin(t) ==
    /\ clPc[t] = "idle"
    /\ clPc' = [clPc EXCEPT ![t] = "sa_next"]
    /\ clIter' = [clIter EXCEPT ![t] =
                    [idx |-> 1, used |-> Len(streams), prior |-> Values(streams), seen |-> {}]]
    /\ UNCHANGED <<mgrVars, camera_id, running, capture, capVars, infVars, alertVars,
                   clCam, clStream, lastRet, now, viewVars, syncVars, histVars>>

\* stop_all: the iterator's next value.  A dict whose size has changed since the
\* iterator was made raises RuntimeError; past the last entry the loop ends
SaNext(t) ==
    /\ clPc[t] = "sa_next"
    /\ IF Len(streams) # clIter[t].used
       THEN /\ clPc' = [clPc EXCEPT ![t] = "idle"]
            /\ lastRet' = Ret("stop_all", None, "RuntimeError", None)
            /\ clStream' = [clStream EXCEPT ![t] = None]
            /\ clIter' = [clIter EXCEPT ![t] = NoIter]
       ELSE IF clIter[t].idx > Len(streams)
       THEN /\ clPc' = [clPc EXCEPT ![t] = "sa_clear"]
            /\ UNCHANGED <<clStream, clIter, lastRet>>
       ELSE /\ clStream' = [clStream EXCEPT ![t] = streams[clIter[t].idx].val]
            /\ clIter' = [clIter EXCEPT ![t].idx = @ + 1]
            /\ clPc' = [clPc EXCEPT ![t] = "sa_stop"]
            /\ UNCHANGED lastRet
    /\ UNCHANGED <<mgrVars, camera_id, running, capture, capVars, infVars, alertVars,
                   clCam, now, viewVars, syncVars, histVars>>

\* stop_all: stream.stop(), to its test of self.capture
SaStopEnter(t) ==
    /\ clPc[t] = "sa_stop"
    /\ StopEnter(clStream[t])
    /\ IF capture[clStream[t]] # "None"
       THEN /\ clPc' = [clPc EXCEPT ![t] = "sa_release"]
            /\ UNCHANGED clIter
       ELSE /\ clPc' = [clPc EXCEPT ![t] = "sa_next"]
            /\ clIter' = [clIter EXCEPT ![t].seen = @ \cup {clStream[t]}]
    /\ UNCHANGED <<mgrVars, camera_id, capture, capVars, infVars, alertVars,
                   clCam, clStream, lastRet, now, viewVars, syncVars, histVars>>

\* stop_all: stream.stop(): self.capture.release().  The attribute is read again:
\* set to None in between by another stop(), the call raises AttributeError
SaStopRelease(t) ==
    /\ clPc[t] = "sa_release"
    /\ IF capture[clStream[t]] = "None"
       THEN /\ clPc' = [clPc EXCEPT ![t] = "idle"]
            /\ lastRet' = Ret("stop_all", None, "AttributeError", None)
            /\ clStream' = [clStream EXCEPT ![t] = None]
            /\ clIter' = [clIter EXCEPT ![t] = NoIter]
            /\ UNCHANGED <<capture, released>>
       ELSE /\ StopRelease(clStream[t])
            /\ clPc' = [clPc EXCEPT ![t] = "sa_none"]
            /\ UNCHANGED <<lastRet, clStream, clIter>>
    /\ UNCHANGED <<mgrVars, camera_id, running, capVars, infVars, alertVars,
                   clCam, now, viewVars, syncVars, opened, workers, torn, observed, trail>>

\* stop_all: stream.stop(): self.capture = None
SaStopClear(t) ==
    /\ clPc[t] = "sa_none"
    /\ StopClear(clStream[t])
    /\ clPc' = [clPc EXCEPT ![t] = "sa_next"]
    /\ clIter' = [clIter EXCEPT ![t].seen = @ \cup {clStream[t]}]
    /\ UNCHANGED <<mgrVars, camera_id, running, capVars, infVars, alertVars,
                   clCam, clStream, lastRet, now, viewVars, syncVars, histVars>>

\* stop_all: self.streams.clear(), and the return
SaClear(t) ==
    /\ clPc[t] = "sa_clear"
    /\ streams' = <<>>
    /\ clPc' = [clPc EXCEPT ![t] = "idle"]
    /\ lastRet' = Ret("stop_all", None, "ok", None)
    /\ clStream' = [clStream EXCEPT ![t] = None]
    /\ clIter' = [clIter EXCEPT ![t] = NoIter]
    /\ torn' = torn \cup clIter[t].seen
    /\ UNCHANGED <<nstreams, camera_id, running, capture, capVars, infVars, alertVars,
                   clCam, now, viewVars, syncVars, opened, released, workers, observed, trail>>

\* stop_camera: cm.stop_stream(camera.id).  CameraManager defines get_instance,
\* get_or_create_stream and stop_all and no stop_stream: the attribute lookup
\* raises AttributeError before anything is stopped
StopCamera(t, c) ==
    /\ clPc[t] = "idle"
    /\ lastRet' = Ret("stop_camera", c, "AttributeError", None)
    /\ UNCHANGED <<mgrVars, camera_id, running, capture, capVars, infVars, alertVars,
                   clPc, clCam, clStream, clIter, now, viewVars, syncVars, histVars>>

(***************************************************************************)
(* The capture thread: CameraStream._capture_loop.                         *)
(***************************************************************************)
\* self.clip_buffer.append(frame.copy()), cut to its last 2 * clip_max_len frames
clip_max_len == num_frames

\* Trim cutting the buffer to its first frames, not its last
TrimKeepsOldest(buf) ==
    LET max_buffer == clip_max_len * 2 IN
    IF Len(buf) > max_buffer
    THEN SubSeq(buf, 1, max_buffer)
    ELSE buf

Trim(buf) ==
    LET max_buffer == clip_max_len * 2 IN
    IF Len(buf) > max_buffer
    THEN SubSeq(buf, Len(buf) - max_buffer + 1, Len(buf))
    ELSE buf

\* CapOpen with self.running = False lost from the branch of the failure
CapOpenKeepsRunning(p, ok) ==
    /\ capture_thread[p] = "open"
    /\ opened' = [opened EXCEPT ![p] = @ + 1]
    /\ capture' = [capture EXCEPT ![p] = IF ok THEN "Open" ELSE "Unopened"]
    /\ capture_thread' = [capture_thread EXCEPT ![p] = IF ok THEN "loop" ELSE "failed"]
    /\ UNCHANGED <<mgrVars, camera_id, running, fail_count, frame_counter, last_frame,
                   clip_buffer, infVars, alertVars, clVars, now, viewVars, syncVars, released, workers, torn, observed, trail>>

\* _open_capture() and the test that follows it: a source that does not open
\* clears the running flag and ends the thread; stop() is not called
CapOpen(p, ok) ==
    /\ capture_thread[p] = "open"
    /\ opened' = [opened EXCEPT ![p] = @ + 1]
    /\ capture' = [capture EXCEPT ![p] = IF ok THEN "Open" ELSE "Unopened"]
    /\ IF ok
       THEN /\ capture_thread' = [capture_thread EXCEPT ![p] = "loop"]
            /\ UNCHANGED running
       ELSE /\ capture_thread' = [capture_thread EXCEPT ![p] = "failed"]
            /\ running' = [running EXCEPT ![p] = FALSE]
    /\ UNCHANGED <<mgrVars, camera_id, fail_count, frame_counter, last_frame,
                   clip_buffer, infVars, alertVars, clVars, now, viewVars, syncVars, released, workers, torn, observed, trail>>

\* while self.running
CapLoop(p) ==
    /\ capture_thread[p] = "loop"
    /\ capture_thread' = [capture_thread EXCEPT ![p] = IF running[p] THEN "read" ELSE "stop"]
    /\ UNCHANGED <<mgrVars, camera_id, running, capture, fail_count, frame_counter,
                   last_frame, clip_buffer, infVars, alertVars, clVars, now, viewVars, syncVars, histVars>>

\* ReadFailed with > for >=: the loop is left one failure late
ReadFailedLate(p) ==
    /\ fail_count' = [fail_count EXCEPT ![p] = @ + 1]
    /\ IF fail_count[p] + 1 > max_failures
       THEN /\ running' = [running EXCEPT ![p] = FALSE]
            /\ capture_thread' = [capture_thread EXCEPT ![p] = "stop"]
       ELSE /\ capture_thread' = [capture_thread EXCEPT ![p] = "loop"]
            /\ UNCHANGED running
    /\ UNCHANGED <<frame_counter, last_frame, clip_buffer>>

\* a failed read: fail_count += 1, and at max_failures the flag is cleared and
\* the loop is left
ReadFailed(p) ==
    /\ fail_count' = [fail_count EXCEPT ![p] = @ + 1]
    /\ IF fail_count[p] + 1 >= max_failures
       THEN /\ running' = [running EXCEPT ![p] = FALSE]
            /\ capture_thread' = [capture_thread EXCEPT ![p] = "stop"]
       ELSE /\ capture_thread' = [capture_thread EXCEPT ![p] = "loop"]
            /\ UNCHANGED running
    /\ UNCHANGED <<frame_counter, last_frame, clip_buffer>>

\* a good read: the count of failures starts again, and under the lock the frame
\* becomes the latest frame and the last of the clip buffer
ReadSucceeded(p) ==
    LET frame == frame_counter[p] + 1 IN
    /\ lock[p] = None
    /\ fail_count' = [fail_count EXCEPT ![p] = 0]
    /\ frame_counter' = [frame_counter EXCEPT ![p] = frame]
    /\ last_frame' = [last_frame EXCEPT ![p] = frame]
    /\ clip_buffer' = [clip_buffer EXCEPT ![p] = Trim(Append(@, frame))]
    /\ capture_thread' = [capture_thread EXCEPT ![p] = "loop"]
    /\ UNCHANGED running

\* ret, frame = self.capture.read(), and the rest of the iteration.  The
\* attribute is read again: set to None by a stop() since the loop's test, the
\* call raises AttributeError and the thread dies; a released handle reads nothing.
\* The source delivers n frames at most
CapReadUpTo(p, ok, n) ==
    /\ capture_thread[p] = "read"
    /\ IF capture[p] = "None"
       THEN /\ capture_thread' = [capture_thread EXCEPT ![p] = "crashed"]
            /\ UNCHANGED <<running, fail_count, frame_counter, last_frame, clip_buffer>>
       ELSE IF ok /\ capture[p] = "Open"
       THEN /\ frame_counter[p] < n
            /\ ReadSucceeded(p)
       ELSE ReadFailed(p)
    /\ UNCHANGED <<mgrVars, camera_id, capture, infVars, alertVars, clVars, now, viewVars, syncVars,
                   histVars>>

CapRead(p, ok) == CapReadUpTo(p, ok, MaxFrames)

\* self.stop() after the loop, to its test of self.capture
CapStopEnter(p) ==
    /\ capture_thread[p] = "stop"
    /\ StopEnter(p)
    /\ capture_thread' = [capture_thread EXCEPT ![p] =
                            IF capture[p] # "None" THEN "stop_release" ELSE "done"]
    /\ UNCHANGED <<mgrVars, camera_id, capture, fail_count, frame_counter, last_frame,
                   clip_buffer, infVars, alertVars, clVars, now, viewVars, syncVars, histVars>>

\* self.stop() after the loop: self.capture.release()
CapStopRelease(p) ==
    /\ capture_thread[p] = "stop_release"
    /\ IF capture[p] = "None"
       THEN /\ capture_thread' = [capture_thread EXCEPT ![p] = "crashed"]
            /\ UNCHANGED <<capture, released>>
       ELSE /\ StopRelease(p)
            /\ capture_thread' = [capture_thread EXCEPT ![p] = "stop_none"]
    /\ UNCHANGED <<mgrVars, camera_id, running, fail_count, frame_counter, last_frame,
                   clip_buffer, infVars, alertVars, clVars, now, viewVars, syncVars, opened, workers, torn, observed, trail>>

\* self.stop() after the loop: self.capture = None
CapStopClear(p) ==
    /\ capture_thread[p] = "stop_none"
    /\ StopClear(p)
    /\ capture_thread' = [capture_thread EXCEPT ![p] = "done"]
    /\ UNCHANGED <<mgrVars, camera_id, running, fail_count, frame_counter, last_frame,
                   clip_buffer, infVars, alertVars, clVars, now, viewVars, syncVars, histVars>>

(***************************************************************************)
(* The inference thread: CameraStream._inference_loop, with                *)
(* _post_process_label, _maybe_log_alert and _send_alert_email.            *)
(***************************************************************************)
\* PostProcessLabel with > for >= in the test of the display floor
PostProcessLabelAboveFloor(label, conf) ==
    IF label = NormalLabel /\ conf > display_floor THEN <<label, conf>>
    ELSE IF conf >= conf_threshold THEN <<label, conf>>
    ELSE <<NormalLabel, 0>>

\* _post_process_label
PostProcessLabel(label, conf) ==
    IF label = NormalLabel /\ conf >= display_floor THEN <<label, conf>>
    ELSE IF conf >= conf_threshold THEN <<label, conf>>
    ELSE <<NormalLabel, 0>>

\* InfLoop with `while True` for `while self.running`
InfLoopIgnoresFlag(p) ==
    /\ inference_thread[p] = "loop"
    /\ inference_thread' = [inference_thread EXCEPT ![p] = "sleep"]
    /\ observed' = [observed EXCEPT ![p] = <<>>]
    /\ UNCHANGED <<mgrVars, camera_id, running, capture, capVars, frames_for_model, raw,
                   latest_detection, alertVars, clVars, now, viewVars, syncVars,
                   opened, released, workers, torn, trail>>

\* while self.running
InfLoop(p) ==
    /\ inference_thread[p] = "loop"
    /\ inference_thread' = [inference_thread EXCEPT ![p] =
                              IF running[p] THEN "sleep" ELSE "done"]
    /\ observed' = [observed EXCEPT ![p] = <<>>]
    /\ UNCHANGED <<mgrVars, camera_id, running, capture, capVars, frames_for_model, raw,
                   latest_detection, alertVars, clVars, now, viewVars, syncVars,
                   opened, released, workers, torn, trail>>

\* InfSnapshot without the test of the length: the tick goes on with the
\* frames there are
InfSnapshotNoSkip(p) ==
    /\ inference_thread[p] = "sleep"
    /\ lock[p] = None
    /\ frames_for_model' = [frames_for_model EXCEPT ![p] =
            SubSeq(clip_buffer[p],
                   IF Len(clip_buffer[p]) > clip_max_len
                   THEN Len(clip_buffer[p]) - clip_max_len + 1 ELSE 1,
                   Len(clip_buffer[p]))]
    /\ inference_thread' = [inference_thread EXCEPT ![p] = "predict"]
    /\ UNCHANGED <<mgrVars, camera_id, running, capture, capVars, raw, latest_detection,
                   alertVars, clVars, now, viewVars, syncVars, histVars>>

\* InfSnapshot copying the head of the buffer, its oldest frames, for its tail
InfSnapshotOldest(p) ==
    /\ inference_thread[p] = "sleep"
    /\ lock[p] = None
    /\ IF Len(clip_buffer[p]) < clip_max_len
       THEN /\ inference_thread' = [inference_thread EXCEPT ![p] = "loop"]
            /\ UNCHANGED frames_for_model
       ELSE /\ frames_for_model' = [frames_for_model EXCEPT ![p] =
                    SubSeq(clip_buffer[p], 1, clip_max_len)]
            /\ inference_thread' = [inference_thread EXCEPT ![p] = "predict"]
    /\ UNCHANGED <<mgrVars, camera_id, running, capture, capVars, raw, latest_detection,
                   alertVars, clVars, now, viewVars, syncVars, histVars>>

\* InfSnapshot keeping the lock once its copy is made, through the call of
\* the classifier and all that follows the call
InfSnapshotHoldsLock(p) ==
    /\ inference_thread[p] = "sleep"
    /\ lock[p] = None
    /\ IF Len(clip_buffer[p]) < clip_max_len
       THEN /\ inference_thread' = [inference_thread EXCEPT ![p] = "loop"]
            /\ UNCHANGED <<frames_for_model, lock>>
       ELSE /\ frames_for_model' = [frames_for_model EXCEPT ![p] =
                    SubSeq(clip_buffer[p], Len(clip_buffer[p]) - clip_max_len + 1,
                           Len(clip_buffer[p]))]
            /\ inference_thread' = [inference_thread EXCEPT ![p] = "predict"]
            /\ lock' = [lock EXCEPT ![p] = p]
    /\ UNCHANGED <<mgrVars, camera_id, running, capture, capVars, raw, latest_detection,
                   alertVars, clVars, now, viewVars, unlocked, cls_lock, instance,
                   ninstances, histVars>>

\* after time.sleep(self.inference_interval): under the lock, a buffer shorter
\* than clip_max_len skips the tick, else its last clip_max_len frames are copied
InfSnapshot(p) ==
    /\ inference_thread[p] = "sleep"
    /\ lock[p] = None
    /\ IF Len(clip_buffer[p]) < clip_max_len
       THEN /\ inference_thread' = [inference_thread EXCEPT ![p] = "loop"]
            /\ UNCHANGED frames_for_model
       ELSE /\ frames_for_model' = [frames_for_model EXCEPT ![p] =
                    SubSeq(clip_buffer[p], Len(clip_buffer[p]) - clip_max_len + 1,
                           Len(clip_buffer[p]))]
            /\ inference_thread' = [inference_thread EXCEPT ![p] = "predict"]
    /\ UNCHANGED <<mgrVars, camera_id, running, capture, capVars, raw, latest_detection,
                   alertVars, clVars, now, viewVars, syncVars, histVars>>

\* InfPredict without the except clause: an exception of the classifier
\* ends the thread and the stream
InfPredictFatal(p, out) ==
    /\ inference_thread[p] = "predict"
    /\ IF out.raised
       THEN /\ inference_thread' = [inference_thread EXCEPT ![p] = "done"]
            /\ running' = [running EXCEPT ![p] = FALSE]
            /\ UNCHANGED raw
       ELSE /\ raw' = [raw EXCEPT ![p] = <<out.label, out.conf>>]
            /\ inference_thread' = [inference_thread EXCEPT ![p] = "post"]
            /\ UNCHANGED running
    /\ UNCHANGED <<mgrVars, camera_id, capture, capVars, frames_for_model,
                   latest_detection, alertVars, clVars, now, viewVars, syncVars, histVars>>

\* self.model.predict_clip(frames_for_model): a (label, confidence), or an
\* exception, which the loop's except clause swallows
InfPredict(p, out) ==
    /\ inference_thread[p] = "predict"
    /\ IF out.raised
       THEN /\ inference_thread' = [inference_thread EXCEPT ![p] = "loop"]
            /\ UNCHANGED raw
       ELSE /\ raw' = [raw EXCEPT ![p] = <<out.label, out.conf>>]
            /\ inference_thread' = [inference_thread EXCEPT ![p] = "post"]
    /\ UNCHANGED <<mgrVars, camera_id, running, capture, capVars, frames_for_model,
                   latest_detection, alertVars, clVars, now, viewVars, syncVars, histVars>>

\* MaybeLogAlert with the test of the cooldown lost
MaybeLogAlertNoCooldown(p, label, conf) ==
    IF label = NormalLabel \/ conf < conf_threshold
    THEN /\ pending_label' = [pending_label EXCEPT ![p] = ""]
         /\ pending_count' = [pending_count EXCEPT ![p] = 0]
         /\ UNCHANGED last_alert_ts
         /\ inference_thread' = [inference_thread EXCEPT ![p] = "loop"]
    ELSE LET count == IF pending_label[p] = label THEN pending_count[p] + 1 ELSE 1 IN
         /\ count <= MaxPending
         /\ pending_label' = [pending_label EXCEPT ![p] = label]
         /\ pending_count' = [pending_count EXCEPT ![p] = count]
         /\ IF count < required[p]
            THEN /\ UNCHANGED last_alert_ts
                 /\ inference_thread' = [inference_thread EXCEPT ![p] = "loop"]
            ELSE /\ last_alert_ts' = [last_alert_ts EXCEPT ![p] = now]
                 /\ inference_thread' = [inference_thread EXCEPT ![p] = "persist"]

\* MaybeLogAlert counting on through a change of label
MaybeLogAlertKeepsCount(p, label, conf) ==
    IF label = NormalLabel \/ conf < conf_threshold
    THEN /\ pending_label' = [pending_label EXCEPT ![p] = ""]
         /\ pending_count' = [pending_count EXCEPT ![p] = 0]
         /\ UNCHANGED last_alert_ts
         /\ inference_thread' = [inference_thread EXCEPT ![p] = "loop"]
    ELSE LET count == pending_count[p] + 1 IN
         /\ count <= MaxPending
         /\ pending_label' = [pending_label EXCEPT ![p] = label]
         /\ pending_count' = [pending_count EXCEPT ![p] = count]
         /\ IF count < required[p] \/ now - last_alert_ts[p] < alert_cooldown
            THEN /\ UNCHANGED last_alert_ts
                 /\ inference_thread' = [inference_thread EXCEPT ![p] = "loop"]
            ELSE /\ last_alert_ts' = [last_alert_ts EXCEPT ![p] = now]
                 /\ inference_thread' = [inference_thread EXCEPT ![p] = "persist"]

\* MaybeLogAlert with a reset that leaves the pending label and count
MaybeLogAlertKeepsPending(p, label, conf) ==
    IF label = NormalLabel \/ conf < conf_threshold
    THEN /\ UNCHANGED <<pending_label, pending_count>>
         /\ UNCHANGED last_alert_ts
         /\ inference_thread' = [inference_thread EXCEPT ![p] = "loop"]
    ELSE LET count == IF pending_label[p] = label THEN pending_count[p] + 1 ELSE 1 IN
         /\ count <= MaxPending
         /\ pending_label' = [pending_label EXCEPT ![p] = label]
         /\ pending_count' = [pending_count EXCEPT ![p] = count]
         /\ IF count < required[p] \/ now - last_alert_ts[p] < alert_cooldown
            THEN /\ UNCHANGED last_alert_ts
                 /\ inference_thread' = [inference_thread EXCEPT ![p] = "loop"]
            ELSE /\ last_alert_ts' = [last_alert_ts EXCEPT ![p] = now]
                 /\ inference_thread' = [inference_thread EXCEPT ![p] = "persist"]

\* MaybeLogAlert counting every qualifying observation, whatever its label
MaybeLogAlertCountsAny(p, label, conf) ==
    IF label = NormalLabel \/ conf < conf_threshold
    THEN /\ pending_label' = [pending_label EXCEPT ![p] = ""]
         /\ pending_count' = [pending_count EXCEPT ![p] = 0]
         /\ UNCHANGED last_alert_ts
         /\ inference_thread' = [inference_thread EXCEPT ![p] = "loop"]
    ELSE LET count == pending_count[p] + 1 IN
         /\ count <= MaxPending
         /\ pending_label' = [pending_label EXCEPT ![p] = label]
         /\ pending_count' = [pending_count EXCEPT ![p] = count]
         /\ IF count < required[p] \/ now - last_alert_ts[p] < alert_cooldown
            THEN /\ UNCHANGED last_alert_ts
                 /\ inference_thread' = [inference_thread EXCEPT ![p] = "loop"]
            ELSE /\ last_alert_ts' = [last_alert_ts EXCEPT ![p] = now]
                 /\ inference_thread' = [inference_thread EXCEPT ![p] = "persist"]

\* MaybeLogAlert writing the time of every stable observation, suppressed or not
MaybeLogAlertStampsAlways(p, label, conf) ==
    IF label = NormalLabel \/ conf < conf_threshold
    THEN /\ pending_label' = [pending_label EXCEPT ![p] = ""]
         /\ pending_count' = [pending_count EXCEPT ![p] = 0]
         /\ UNCHANGED last_alert_ts
         /\ inference_thread' = [inference_thread EXCEPT ![p] = "loop"]
    ELSE LET count == IF pending_label[p] = label THEN pending_count[p] + 1 ELSE 1 IN
         /\ count <= MaxPending
         /\ pending_label' = [pending_label EXCEPT ![p] = label]
         /\ pending_count' = [pending_count EXCEPT ![p] = count]
         /\ IF count < required[p] \/ now - last_alert_ts[p] < alert_cooldown
            THEN /\ last_alert_ts' = [last_alert_ts EXCEPT ![p] =
                                        IF count < required[p] THEN @ ELSE now]
                 /\ inference_thread' = [inference_thread EXCEPT ![p] = "loop"]
            ELSE /\ last_alert_ts' = [last_alert_ts EXCEPT ![p] = now]
                 /\ inference_thread' = [inference_thread EXCEPT ![p] = "persist"]

\* MaybeLogAlert with a cooldown that holds back the pending label only
MaybeLogAlertCooldownSameLabel(p, label, conf) ==
    IF label = NormalLabel \/ conf < conf_threshold
    THEN /\ pending_label' = [pending_label EXCEPT ![p] = ""]
         /\ pending_count' = [pending_count EXCEPT ![p] = 0]
         /\ UNCHANGED last_alert_ts
         /\ inference_thread' = [inference_thread EXCEPT ![p] = "loop"]
    ELSE LET count == IF pending_label[p] = label THEN pending_count[p] + 1 ELSE 1 IN
         /\ count <= MaxPending
         /\ pending_label' = [pending_label EXCEPT ![p] = label]
         /\ pending_count' = [pending_count EXCEPT ![p] = count]
         /\ IF count < required[p]
               \/ (pending_label[p] = label /\ now - last_alert_ts[p] < alert_cooldown)
            THEN /\ UNCHANGED last_alert_ts
                 /\ inference_thread' = [inference_thread EXCEPT ![p] = "loop"]
            ELSE /\ last_alert_ts' = [last_alert_ts EXCEPT ![p] = now]
                 /\ inference_thread' = [inference_thread EXCEPT ![p] = "persist"]

\* _maybe_log_alert, to the point where the alert is decided: TRUE iff it fires
MaybeLogAlert(p, label, conf) ==
    IF label = NormalLabel \/ conf < conf_threshold
    THEN /\ pending_label' = [pending_label EXCEPT ![p] = ""]
         /\ pending_count' = [pending_count EXCEPT ![p] = 0]
         /\ UNCHANGED last_alert_ts
         /\ inference_thread' = [inference_thread EXCEPT ![p] = "loop"]
    ELSE LET count == IF pending_label[p] = label THEN pending_count[p] + 1 ELSE 1 IN
         /\ count <= MaxPending
         /\ pending_label' = [pending_label EXCEPT ![p] = label]
         /\ pending_count' = [pending_count EXCEPT ![p] = count]
         /\ IF count < required[p] \/ now - last_alert_ts[p] < alert_cooldown
            THEN /\ UNCHANGED last_alert_ts
                 /\ inference_thread' = [inference_thread EXCEPT ![p] = "loop"]
            ELSE /\ last_alert_ts' = [last_alert_ts EXCEPT ![p] = now]
                 /\ inference_thread' = [inference_thread EXCEPT ![p] = "persist"]

\* what an observation is to the debouncer: its label if it is a crime at or
\* above the threshold, and nothing ("") if it is not
Noted(label, conf) == IF label # NormalLabel /\ conf >= conf_threshold THEN label ELSE ""

\* the last MaxPending entries of a sequence
Recent(tr) == IF Len(tr) > MaxPending THEN SubSeq(tr, Len(tr) - MaxPending + 1, Len(tr)) ELSE tr

\* the attributes the inference thread assigns after its snapshot, none of
\* them inside a `with self.lock`: latest_detection, and in _maybe_log_alert,
\* called with (label, conf), the pending count, the pending label unless the
\* run goes on, and the time of the last alert when one fires
InferenceWrites(p, label, conf) ==
    {<<"inference", "latest_detection", "write">>,
     <<"inference", "_pending_count", "write">>}
    \cup (IF label # NormalLabel /\ conf >= conf_threshold /\ pending_label[p] = label
          THEN {} ELSE {<<"inference", "_pending_label", "write">>})
    \cup (IF inference_thread'[p] = "persist"
          THEN {<<"inference", "_last_alert_ts", "write">>} ELSE {})

\* InfPost handing the display value, not the raw one, to _maybe_log_alert
InfPostDisplayed(p) ==
    LET shown == PostProcessLabel(raw[p][1], raw[p][2]) IN
    /\ inference_thread[p] = "post"
    /\ latest_detection' = [latest_detection EXCEPT ![p] = shown]
    /\ MaybeLogAlert(p, shown[1], shown[2])
    /\ unlocked' = unlocked \cup InferenceWrites(p, shown[1], shown[2])
    /\ observed' = [observed EXCEPT ![p] = <<shown[1], shown[2], frames_for_model[p]>>]
    /\ UNCHANGED <<mgrVars, camera_id, running, capture, capVars, frames_for_model, raw,
                   required, detections, emails, clVars, now, viewVars, lock, cls_lock, instance,
                   ninstances,
                   opened, released, workers, torn, trail>>

\* self.latest_detection = _post_process_label(raw), then _maybe_log_alert(raw)
InfPost(p) ==
    /\ inference_thread[p] = "post"
    /\ latest_detection' = [latest_detection EXCEPT ![p] =
                              PostProcessLabel(raw[p][1], raw[p][2])]
    /\ MaybeLogAlert(p, raw[p][1], raw[p][2])
    /\ unlocked' = unlocked \cup InferenceWrites(p, raw[p][1], raw[p][2])
    /\ observed' = [observed EXCEPT ![p] = <<raw[p][1], raw[p][2], frames_for_model[p]>>]
    /\ UNCHANGED <<mgrVars, camera_id, running, capture, capVars, frames_for_model, raw,
                   required, detections, emails, clVars, now, viewVars, lock, cls_lock, instance,
                   ninstances,
                   opened, released, workers, torn, trail>>

\* InfPost, with the observation added to the trail kept of them
InfPostNoted(p) ==
    /\ inference_thread[p] = "post"
    /\ latest_detection' = [latest_detection EXCEPT ![p] =
                              PostProcessLabel(raw[p][1], raw[p][2])]
    /\ MaybeLogAlert(p, raw[p][1], raw[p][2])
    /\ unlocked' = unlocked \cup InferenceWrites(p, raw[p][1], raw[p][2])
    /\ observed' = [observed EXCEPT ![p] = <<raw[p][1], raw[p][2], frames_for_model[p]>>]
    /\ trail' = [trail EXCEPT ![p] = Recent(Append(@, Noted(raw[p][1], raw[p][2])))]
    /\ UNCHANGED <<mgrVars, camera_id, running, capture, capVars, frames_for_model, raw,
                   required, detections, emails, clVars, now, viewVars, lock, cls_lock, instance,
                   ninstances,
                   opened, released, workers, torn>>

\* InfPersist undoing the decision of the debouncer when the persistence fails
InfPersistRollsBack(p, ok) ==
    /\ inference_thread[p] = "persist"
    /\ IF ok
       THEN /\ detections' = Append(detections,
                    [camera_id |-> camera_id[p], crime_label |-> raw[p][1],
                     confidence |-> raw[p][2], ts |-> last_alert_ts[p]])
            /\ inference_thread' = [inference_thread EXCEPT ![p] = "email"]
            /\ UNCHANGED last_alert_ts
       ELSE /\ inference_thread' = [inference_thread EXCEPT ![p] = "loop"]
            /\ last_alert_ts' = [last_alert_ts EXCEPT ![p] = 0]
            /\ UNCHANGED detections
    /\ UNCHANGED <<mgrVars, camera_id, running, capture, capVars, frames_for_model, raw,
                   latest_detection, pending_label, pending_count, required,
                   emails, clVars, now, viewVars, syncVars, histVars>>

\* InfPersist going on to the notification when the snapshot or the commit has
\* failed
InfPersistNotifiesAnyway(p, ok) ==
    /\ inference_thread[p] = "persist"
    /\ detections' = IF ok
                     THEN Append(detections,
                            [camera_id |-> camera_id[p], crime_label |-> raw[p][1],
                             confidence |-> raw[p][2], ts |-> last_alert_ts[p]])
                     ELSE detections
    /\ inference_thread' = [inference_thread EXCEPT ![p] = "email"]
    /\ UNCHANGED <<mgrVars, camera_id, running, capture, capVars, frames_for_model, raw,
                   latest_detection, pending_label, pending_count, last_alert_ts, required,
                   emails, clVars, now, viewVars, syncVars, histVars>>

\* _maybe_log_alert: the snapshot is written and the Detection row committed, or
\* one of the two raises and the except clause ends the alert
InfPersist(p, ok) ==
    /\ inference_thread[p] = "persist"
    /\ IF ok
       THEN /\ detections' = Append(detections,
                    [camera_id |-> camera_id[p], crime_label |-> raw[p][1],
                     confidence |-> raw[p][2], ts |-> last_alert_ts[p]])
            /\ inference_thread' = [inference_thread EXCEPT ![p] = "email"]
       ELSE /\ inference_thread' = [inference_thread EXCEPT ![p] = "loop"]
            /\ UNCHANGED detections
    /\ UNCHANGED <<mgrVars, camera_id, running, capture, capVars, frames_for_model, raw,
                   latest_detection, pending_label, pending_count, last_alert_ts, required,
                   emails, clVars, now, viewVars, syncVars, histVars>>

\* InfEmail letting a failure of the notification out of _send_alert_email, to
\* the except clause of the inference loop, with the session rolled back
InfEmailRollsBack(p, outcome) ==
    /\ inference_thread[p] = "email"
    /\ emails' = IF outcome = "sent"
                 THEN Append(emails, [camera_id |-> camera_id[p], crime_label |-> raw[p][1],
                                      detection_id |-> Len(detections)])
                 ELSE emails
    /\ detections' = IF outcome = "failed"
                     THEN SubSeq(detections, 1, Len(detections) - 1)
                     ELSE detections
    /\ inference_thread' = [inference_thread EXCEPT ![p] = "loop"]
    /\ UNCHANGED <<mgrVars, camera_id, running, capture, capVars, frames_for_model, raw,
                   latest_detection, pending_label, pending_count, last_alert_ts, required,
                   clVars, now, viewVars, syncVars, histVars>>

\* _send_alert_email(label, conf, rel_path, det.id): sent; or skipped, for want
\* of configuration or of the resend package; or failed, and the failure swallowed
InfEmail(p, outcome) ==
    /\ inference_thread[p] = "email"
    /\ emails' = IF outcome = "sent"
                 THEN Append(emails, [camera_id |-> camera_id[p], crime_label |-> raw[p][1],
                                      detection_id |-> Len(detections)])
                 ELSE emails
    /\ inference_thread' = [inference_thread EXCEPT ![p] = "loop"]
    /\ UNCHANGED <<mgrVars, camera_id, running, capture, capVars, frames_for_model, raw,
                   latest_detection, pending_label, pending_count, last_alert_ts, required,
                   detections, clVars, now, viewVars, syncVars, histVars>>

\* the wall clock moves on
Tick ==
    /\ now < MaxNow
    /\ now' = now + 1
    /\ UNCHANGED <<mgrVars, camera_id, running, capture, capVars, infVars, alertVars,
                   clVars, viewVars, syncVars, histVars>>

(***************************************************************************)
(* CameraStream.frames(), one generator per viewer.  A frame object is the *)
(* number of the frame it holds; 'own' tells a copy made by the viewer     *)
(* from the object the pipeline holds, and 'text' is what putText drew on  *)
(* a copy.  The locals are cleared where the code is about to assign them  *)
(* again before any use.                                                   *)
(***************************************************************************)
\* mjpeg_response(stream): frames() is called on a registered stream; the
\* generators are numbered in the order of their creation
FramesBegin(v, p) ==
    /\ viewPc[v] = "none"
    /\ \A w \in Viewers : w < v => viewPc[w] # "none"
    /\ camera_id[p] # None
    /\ viewStream' = [viewStream EXCEPT ![v] = p]
    /\ viewPc' = [viewPc EXCEPT ![v] = "test"]
    /\ UNCHANGED <<mgrVars, strVars, clVars, now, histVars, syncVars, viewFrame, viewDet, viewOut,
                   drawn, stale>>

\* FramesTest going on whatever the running flag says
FramesTestIgnoresFlag(v) ==
    /\ viewPc[v] = "test"
    /\ viewPc' = [viewPc EXCEPT ![v] = "lock"]
    /\ UNCHANGED <<mgrVars, strVars, clVars, now, histVars, syncVars,
                   viewStream, viewFrame, viewDet, viewOut,
                   drawn, stale>>

\* while self.running
FramesTest(v) ==
    /\ viewPc[v] = "test"
    /\ viewPc' = [viewPc EXCEPT ![v] = IF running[viewStream[v]] THEN "lock" ELSE "done"]
    /\ UNCHANGED <<mgrVars, strVars, clVars, now, histVars, syncVars,
                   viewStream, viewFrame, viewDet, viewOut,
                   drawn, stale>>

\* FramesCopy taking the frame of the pipeline itself, not a copy of it
FramesCopyShares(v) ==
    LET p == viewStream[v] IN
    /\ viewPc[v] = "lock"
    /\ lock[p] = None
    /\ viewDet' = [viewDet EXCEPT ![v] = latest_detection[p]]
    /\ IF last_frame[p] = None
       THEN /\ viewPc' = [viewPc EXCEPT ![v] = "test"]
            /\ UNCHANGED viewFrame
       ELSE /\ viewPc' = [viewPc EXCEPT ![v] = "overlay"]
            /\ viewFrame' = [viewFrame EXCEPT ![v] =
                                [of |-> last_frame[p], own |-> FALSE, text |-> <<>>]]
    /\ UNCHANGED <<mgrVars, strVars, clVars, now, histVars, syncVars, viewStream, viewOut,
                   drawn, stale>>

\* with self.lock (taken when free, given back in the same step):
\* frame = self._last_frame.copy(), or None; detection = self.latest_detection.
\* With no frame yet: sleep and continue
FramesCopy(v) ==
    LET p == viewStream[v] IN
    /\ viewPc[v] = "lock"
    /\ lock[p] = None
    /\ viewDet' = [viewDet EXCEPT ![v] = latest_detection[p]]
    /\ IF last_frame[p] = None
       THEN /\ viewPc' = [viewPc EXCEPT ![v] = "test"]
            /\ UNCHANGED viewFrame
       ELSE /\ viewPc' = [viewPc EXCEPT ![v] = "overlay"]
            /\ viewFrame' = [viewFrame EXCEPT ![v] =
                                [of |-> last_frame[p], own |-> TRUE, text |-> <<>>]]
    /\ UNCHANGED <<mgrVars, strVars, clVars, now, histVars, syncVars, viewStream, viewOut,
                   drawn, stale>>

\* text = f"{label} ({conf:.2f})", or "Predicting..." with no detection
OverlayText(detection) ==
    IF detection # <<>>
    THEN <<detection[1], detection[2]>>
    ELSE <<"Predicting...">>

\* cv2.putText(frame, text, ...): the pixels of the object 'frame' refers to
FramesOverlay(v) ==
    /\ viewPc[v] = "overlay"
    /\ IF viewFrame[v].own
       THEN /\ viewFrame' = [viewFrame EXCEPT ![v].text = OverlayText(viewDet[v])]
            /\ UNCHANGED drawn
       ELSE /\ drawn' = drawn \cup {viewFrame[v].of}
            /\ UNCHANGED viewFrame
    /\ viewPc' = [viewPc EXCEPT ![v] = "encode"]
    /\ UNCHANGED <<mgrVars, strVars, clVars, now, histVars, syncVars, viewStream, viewDet,
                   viewOut, stale>>

\* ret, jpeg = cv2.imencode(".jpg", frame); if not ret: continue; yield the chunk
FramesEncode(v, ret) ==
    /\ viewPc[v] = "encode"
    /\ IF ret
       THEN /\ viewOut' = [viewOut EXCEPT ![v] = <<viewFrame[v].of, viewFrame[v].text>>]
            /\ viewPc' = [viewPc EXCEPT ![v] = "yielded"]
       ELSE /\ viewPc' = [viewPc EXCEPT ![v] = "test"]
            /\ UNCHANGED viewOut
    /\ viewFrame' = [viewFrame EXCEPT ![v] = NoFrame]
    /\ viewDet' = [viewDet EXCEPT ![v] = <<>>]
    /\ stale' = [stale EXCEPT ![v] = IF ret /\ ~running[viewStream[v]] THEN @ + 1 ELSE @]
    /\ UNCHANGED <<mgrVars, strVars, clVars, now, histVars, syncVars, viewStream, drawn>>

\* the response asks the generator for its next chunk
FramesResume(v) ==
    /\ viewPc[v] = "yielded"
    /\ viewPc' = [viewPc EXCEPT ![v] = "test"]
    /\ viewOut' = [viewOut EXCEPT ![v] = <<>>]
    /\ UNCHANGED <<mgrVars, strVars, clVars, now, histVars, syncVars,
                   viewStream, viewFrame, viewDet, drawn, stale>>

\* the viewer disconnects: the generator is closed at its yield
FramesClose(v) ==
    /\ viewPc[v] = "yielded"
    /\ viewPc' = [viewPc EXCEPT ![v] = "done"]
    /\ viewOut' = [viewOut EXCEPT ![v] = <<>>]
    /\ UNCHANGED <<mgrVars, strVars, clVars, now, histVars, syncVars,
                   viewStream, viewFrame, viewDet, drawn, stale>>

(***************************************************************************)
(* CameraManager.get_instance, called first by every request handler.      *)
(***************************************************************************)
\* GiAcquire entering the block whoever holds the lock
GiAcquireNoLock(t) ==
    /\ clPc[t] = "idle"
    /\ cls_lock' = t
    /\ clPc' = [clPc EXCEPT ![t] = "gi_test"]
    /\ UNCHANGED <<mgrVars, strVars, clCam, clStream, clIter, lastRet, now, viewVars,
                   lock, unlocked, instance, ninstances, histVars>>

\* with cls._lock: the handler waits until the lock is free and takes it
GiAcquire(t) ==
    /\ clPc[t] = "idle"
    /\ cls_lock = None
    /\ cls_lock' = t
    /\ clPc' = [clPc EXCEPT ![t] = "gi_test"]
    /\ UNCHANGED <<mgrVars, strVars, clCam, clStream, clIter, lastRet, now, viewVars,
                   lock, unlocked, instance, ninstances, histVars>>

\* if cls._instance is None; if it is not, the block ends and the lock is free
GiTest(t) ==
    /\ clPc[t] = "gi_test"
    /\ IF instance = None
       THEN /\ clPc' = [clPc EXCEPT ![t] = "gi_new"]
            /\ UNCHANGED cls_lock
       ELSE /\ clPc' = [clPc EXCEPT ![t] = "gi_return"]
            /\ cls_lock' = None
    /\ UNCHANGED <<mgrVars, strVars, clCam, clStream, clIter, lastRet, now, viewVars,
                   lock, unlocked, instance, ninstances, histVars>>

\* cls._instance = CameraManager(model_name_or_path), and the end of the block.
\* A constructor that raises (the model does not load) assigns nothing: the
\* lock is given back and the exception ends the handler
GiNew(t, ok) ==
    /\ clPc[t] = "gi_new"
    /\ cls_lock' = None
    /\ IF ok
       THEN /\ ninstances' = ninstances + 1
            /\ instance' = ninstances + 1
            /\ clPc' = [clPc EXCEPT ![t] = "gi_return"]
            /\ UNCHANGED lastRet
       ELSE /\ clPc' = [clPc EXCEPT ![t] = "idle"]
            /\ lastRet' = Ret("get_instance", None, "error", None)
            /\ UNCHANGED <<instance, ninstances>>
    /\ UNCHANGED <<mgrVars, strVars, clCam, clStream, clIter, now, viewVars,
                   lock, unlocked, histVars>>

\* return cls._instance, read after the block
GiReturn(t) ==
    /\ clPc[t] = "gi_return"
    /\ clPc' = [clPc EXCEPT ![t] = "idle"]
    /\ lastRet' = Ret("get_instance", None, "ok", instance)
    /\ UNCHANGED <<mgrVars, strVars, clCam, clStream, clIter, now, viewVars, syncVars,
                   histVars>>

(***************************************************************************)
(* camera_stats, after its call of get_or_create_stream.                   *)
(***************************************************************************)
\* what camera_stats returns: the JSON body, for the stream it was given
StatsRet(c, p, label, conf) ==
    [op |-> "stats", cam |-> c, status |-> "ok", val |-> p,
     label |-> label, confidence |-> conf]

\* stream = cm.get_or_create_stream(camera): the handler takes the stream that
\* the call returned
StatsBegin(t) ==
    /\ clPc[t] = "idle"
    /\ lastRet.op = "get_or_create"
    /\ lastRet.status = "ok"
    /\ clPc' = [clPc EXCEPT ![t] = "stats_test"]
    /\ clCam' = [clCam EXCEPT ![t] = lastRet.cam]
    /\ clStream' = [clStream EXCEPT ![t] = lastRet.val]
    /\ lastRet' = NoRet
    /\ UNCHANGED <<mgrVars, strVars, clIter, now, viewVars, syncVars, histVars>>

\* label = "Unknown"; conf = 0.0; if stream.latest_detection: read outside self.lock
StatsTest(t) ==
    LET p == clStream[t] IN
    /\ clPc[t] = "stats_test"
    /\ unlocked' = unlocked \cup {<<"camera_stats", "latest_detection", "read">>}
    /\ IF latest_detection[p] = <<>>
       THEN /\ lastRet' = StatsRet(clCam[t], p, "Unknown", 0)
            /\ clPc' = [clPc EXCEPT ![t] = "idle"]
            /\ clCam' = [clCam EXCEPT ![t] = None]
            /\ clStream' = [clStream EXCEPT ![t] = None]
       ELSE /\ clPc' = [clPc EXCEPT ![t] = "stats_read"]
            /\ UNCHANGED <<clCam, clStream, lastRet>>
    /\ UNCHANGED <<mgrVars, strVars, clIter, now, viewVars, lock, cls_lock, instance,
                   ninstances, histVars>>

\* StatsRead returning what the classifier said, not what is displayed
StatsReadRaw(t) ==
    LET p == clStream[t] IN
    /\ clPc[t] = "stats_read"
    /\ lastRet' = StatsRet(clCam[t], p, raw[p][1], raw[p][2])
    /\ clPc' = [clPc EXCEPT ![t] = "idle"]
    /\ clCam' = [clCam EXCEPT ![t] = None]
    /\ clStream' = [clStream EXCEPT ![t] = None]
    /\ UNCHANGED <<mgrVars, strVars, clIter, now, viewVars, syncVars, histVars>>

\* label, conf = stream.latest_detection, a second read; return jsonify(...)
StatsRead(t) ==
    LET p == clStream[t] IN
    /\ clPc[t] = "stats_read"
    /\ lastRet' = StatsRet(clCam[t], p, latest_detection[p][1], latest_detection[p][2])
    /\ clPc' = [clPc EXCEPT ![t] = "idle"]
    /\ clCam' = [clCam EXCEPT ![t] = None]
    /\ clStream' = [clStream EXCEPT ![t] = None]
    /\ UNCHANGED <<mgrVars, strVars, clIter, now, viewVars, syncVars, histVars>>

(***************************************************************************)
(* Inputs from outside the program.                                        *)
(***************************************************************************)
Labels == {NormalLabel, "Robbery", "Fighting"}
Confs  == {40, 60, 80}
Predictions ==
    {[raised |-> FALSE, label |-> l, conf |-> c] : l \in Labels, c \in Confs}
        \cup {[raised |-> TRUE, label |-> "", conf |-> 0]}
EmailOutcomes == {"sent", "skipped", "failed"}

(***************************************************************************)
(* The steps of each kind of thread.                                       *)
(***************************************************************************)
GetOrCreate(t) ==
    \/ \E c \in Cameras : GocCheck(t, c)
    \/ GocReturn(t)
    \/ GocRegister(t)
    \/ GocStart(t)

StopAll(t) ==
    \/ SaBegin(t)
    \/ SaNext(t)
    \/ SaStopEnter(t)
    \/ SaStopRelease(t)
    \/ SaStopClear(t)
    \/ SaClear(t)

CaptureExit(p) ==
    \/ CapStopEnter(p)
    \/ CapStopRelease(p)
    \/ CapStopClear(p)

(***************************************************************************)
(* Spec: the registry and the life cycle of its streams, under concurrent  *)
(* requests.  The capture threads get as far as opening their source; the  *)
(* loops of the two threads of a stream are followed in SpecCapture and     *)
(* SpecPipeline.                                                           *)
(***************************************************************************)
Next ==
    \/ \E t \in Clients : GetOrCreate(t)
    \/ \E t \in Clients : StopAll(t)
    \/ \E t \in Clients, c \in Cameras : StopCamera(t, c)
    \/ \E p \in Streams, ok \in BOOLEAN : CapOpen(p, ok)

Spec == Init /\ [][Next]_vars

(***************************************************************************)
(* SpecCreate: requests that only look streams up or create them (the      *)
(* stream and camera_stats endpoints), in any interleaving.                *)
(***************************************************************************)
NextCreate ==
    \/ \E t \in Clients : GetOrCreate(t)
    \/ \E p \in Streams, ok \in BOOLEAN : CapOpen(p, ok)

SpecCreate == Init /\ [][NextCreate]_vars

(***************************************************************************)
(* The state in which get_or_create_stream has just returned the first     *)
(* stream, for camera 1: constructed, registered and started, its two      *)
(* threads not yet run.                                                    *)
(***************************************************************************)
\* r: the stable_required the stream is configured with
InitStartedWith(r) ==
    /\ streams = <<[key |-> 1, val |-> 1]>>
    /\ nstreams = 1
    /\ camera_id = [p \in Streams |-> IF p = 1 THEN 1 ELSE None]
    /\ running = [p \in Streams |-> p = 1]
    /\ capture = [p \in Streams |-> "None"]
    /\ capture_thread = [p \in Streams |-> IF p = 1 THEN "open" ELSE "none"]
    /\ inference_thread = [p \in Streams |-> IF p = 1 THEN "loop" ELSE "none"]
    /\ fail_count = [p \in Streams |-> 0]
    /\ frame_counter = [p \in Streams |-> 0]
    /\ last_frame = [p \in Streams |-> None]
    /\ clip_buffer = [p \in Streams |-> <<>>]
    /\ frames_for_model = [p \in Streams |-> <<>>]
    /\ raw = [p \in Streams |-> <<"", 0>>]
    /\ latest_detection = [p \in Streams |-> <<>>]
    /\ pending_label = [p \in Streams |-> ""]
    /\ pending_count = [p \in Streams |-> 0]
    /\ last_alert_ts = [p \in Streams |-> 0]
    /\ required = [p \in Streams |-> r]
    /\ clPc = [t \in Clients |-> "idle"]
    /\ clCam = [t \in Clients |-> None]
    /\ clStream = [t \in Clients |-> None]
    /\ clIter = [t \in Clients |-> NoIter]
    /\ lastRet = Ret("get_or_create", 1, "ok", 1)
    /\ now = StartNow
    /\ detections = <<>>
    /\ emails = <<>>
    /\ opened = [p \in Streams |-> 0]
    /\ released = [p \in Streams |-> 0]
    /\ workers = [p \in Streams |-> IF p = 1 THEN 2 ELSE 0]
    /\ torn = {}
    /\ observed = [p \in Streams |-> <<>>]
    /\ trail = [p \in Streams |-> <<>>]
    /\ viewPc = [v \in Viewers |-> "none"]
    /\ viewStream = [v \in Viewers |-> None]
    /\ viewFrame = [v \in Viewers |-> NoFrame]
    /\ viewDet = [v \in Viewers |-> <<>>]
    /\ viewOut = [v \in Viewers |-> <<>>]
    /\ drawn = {}
    /\ stale = [v \in Viewers |-> 0]
    /\ lock = [p \in Streams |-> None]
    /\ unlocked = {}
    /\ cls_lock = None
    /\ instance = None
    /\ ninstances = 0

InitStarted == InitStartedWith(stable_required)

(***************************************************************************)
(* SpecCapture: the capture thread of a started stream, its source opening *)
(* or not and each read succeeding or failing, with the sign-outs          *)
(* (stop_all) of one session in any interleaving.                          *)
(***************************************************************************)
\* the session that signs out: /logout
Operator == CHOOSE t \in Clients : TRUE

NextCapture ==
    \/ \E p \in Streams, ok \in BOOLEAN : CapOpen(p, ok)
    \/ \E p \in Streams : CapLoop(p)
    \/ \E p \in Streams, ok \in BOOLEAN : CapRead(p, ok)
    \/ \E p \in Streams : CaptureExit(p)
    \/ StopAll(Operator)

SpecCapture == InitStarted /\ [][NextCapture]_vars

(***************************************************************************)
(* SpecPipeline: both threads of a started stream, with the sign-outs of   *)
(* one session in any interleaving.  The source opens or not; once open,   *)
(* its reads succeed.                                                      *)
(***************************************************************************)
InferenceStep(p) ==
    \/ InfLoop(p)
    \/ InfSnapshot(p)
    \/ \E out \in Predictions : InfPredict(p, out)
    \/ InfPost(p)
    \/ \E ok \in BOOLEAN : InfPersist(p, ok)
    \/ \E o \in EmailOutcomes : InfEmail(p, o)

NextPipeline ==
    \/ \E p \in Streams, ok \in BOOLEAN : CapOpen(p, ok)
    \/ \E p \in Streams : CapLoop(p)
    \/ \E p \in Streams : CapRead(p, TRUE)
    \/ \E p \in Streams : CaptureExit(p)
    \/ \E p \in Streams : InferenceStep(p)
    \/ StopAll(Operator)

SpecPipeline == InitStarted /\ [][NextPipeline]_vars

\* the operating system runs each started thread again and again
SpecPipelineFair ==
    /\ SpecPipeline
    /\ \A p \in Streams : WF_vars(InferenceStep(p))

(***************************************************************************)
(* Vocabulary of the properties.                                           *)
(***************************************************************************)
\* the whole state of the registry and of its streams: everything but the
\* handlers' own locals and results
pipelineState == <<mgrVars, camera_id, running, capture, capVars, infVars, alertVars,
                   now, histVars>>

\* the registry holds stream p for camera c, and p is running
Healthy(c, p) == HasKey(streams, c) /\ GetItem(streams, c) = p /\ running[p]

\* the capture thread, the inference thread of stream p has started and not ended
CaptureAlive(p) == capture_thread[p] \notin {"none", "failed", "done", "crashed"}
InferenceAlive(p) == inference_thread[p] \notin {"none", "done"}

\* this step is handler t entering get_or_create_stream for camera c
GocEnters(t, c) == clPc[t] = "idle" /\ clPc'[t] # "idle" /\ clCam'[t] = c

\* after this step handler t is in the lookup branch: return self.streams[camera.id]
TakesLookup(t) == clPc'[t] = "goc_hit"

\* this step is handler t returning from the lookup branch of get_or_create_stream
GocLooksUp(t, c) == clPc[t] = "goc_hit" /\ clPc'[t] = "idle" /\ clCam[t] = c

\* stream p was started and its running flag is false again: its source did not
\* open, its reads failed max_failures times in a row, or it was stopped
Dead(p) == workers[p] > 0 /\ ~running[p]

\* this step is handler t returning from get_or_create_stream with a stream
GocReturns(t) ==
    /\ clPc[t] \in {"goc_hit", "goc_start"}
    /\ clPc'[t] = "idle"
    /\ lastRet'.status = "ok"

\* this step is handler t returning from stop_all
StopAllReturns(t) == clPc[t] = "sa_clear" /\ clPc'[t] = "idle"

\* this step is a request to the stop endpoint for camera c, seen to its end
StopCameraEnds(c) ==
    /\ lastRet' # lastRet
    /\ lastRet'.op = "stop_camera"
    /\ lastRet'.cam = c

(***************************************************************************)
(* C1.  While camera c's stream p is registered and running, a call of     *)
(* get_or_create_stream for c takes the lookup branch, returns p, and      *)
(* leaves the registry and every stream as they were: no stream is          *)
(* constructed and no thread started.  So a second call in sequence gets   *)
(* the stream the first one got.                                           *)
(***************************************************************************)
C1_GetOrCreateIdempotent ==
    [][\A t \in Clients, c \in Cameras :
        (GocEnters(t, c) \/ GocLooksUp(t, c)) =>
            \A p \in Streams :
                Healthy(c, p) =>
                    /\ GocEnters(t, c) => TakesLookup(t) /\ UNCHANGED pipelineState
                    /\ GocLooksUp(t, c) =>
                            /\ lastRet' = Ret("get_or_create", c, "ok", p)
                            /\ UNCHANGED pipelineState]_vars

\* a request got stream p, and a second request for the same camera is in its
\* lookup branch with p still registered and running
C1_Witness ==
    \E t \in Clients, p \in Streams :
        /\ lastRet = Ret("get_or_create", camera_id[p], "ok", p)
        /\ clPc[t] = "goc_hit"
        /\ clCam[t] = camera_id[p]
        /\ Healthy(camera_id[p], p)
        /\ workers[p] = 2

(***************************************************************************)
(* C2.  A dead stream is not reused: a call of get_or_create_stream for a   *)
(* camera whose registered stream is dead does not take the lookup branch, *)
(* which returns what the registry holds.                                  *)
(***************************************************************************)
C2_DeadNeverReused ==
    [][\A t \in Clients, c \in Cameras :
        (GocEnters(t, c) /\ HasKey(streams, c) /\ Dead(GetItem(streams, c)))
            => ~TakesLookup(t)]_vars

(***************************************************************************)
(* C3.  When stop_all returns, the registry is empty and every stream it   *)
(* held when stop_all was called has its running flag false.               *)
(***************************************************************************)
C3_StopAllStopsAll ==
    [][\A t \in Clients :
        StopAllReturns(t) =>
            /\ streams' = <<>>
            /\ \A p \in clIter[t].prior : ~running'[p]]_vars

(***************************************************************************)
(* C5.  The stop endpoint, for a camera with a registered stream, clears   *)
(* that stream's running flag, releases its capture handle and removes its *)
(* entry, leaving the other cameras' entries as they were.                 *)
(***************************************************************************)
C5_StopRemovesStream ==
    [][\A c \in Cameras :
        (StopCameraEnds(c) /\ HasKey(streams, c)) =>
            /\ ~running'[GetItem(streams, c)]
            /\ capture'[GetItem(streams, c)] = "None"
            /\ ~HasKey(streams', c)
            /\ \A d \in Cameras \ {c} :
                    /\ HasKey(streams', d) = HasKey(streams, d)
                    /\ HasKey(streams, d) => GetItem(streams', d) = GetItem(streams, d)]_vars

(***************************************************************************)
(* C6.  The stop endpoint, for a camera with no registered stream or with  *)
(* a stream that is already stopped, ends without an error and leaves the  *)
(* registry as it was.                                                     *)
(***************************************************************************)
C6_StopIdempotent ==
    [][\A c \in Cameras :
        (StopCameraEnds(c) /\ (HasKey(streams, c) => ~running[GetItem(streams, c)])) =>
            /\ lastRet'.status = "ok"
            /\ streams' = streams]_vars

(***************************************************************************)
(* C7.  Under concurrent calls of get_or_create_stream, a camera never has *)
(* two streams started for it: every caller gets the one stream.           *)
(***************************************************************************)
C7_OneStreamPerCamera ==
    \A p, q \in Streams :
        (camera_id[p] # None /\ camera_id[p] = camera_id[q] /\ p # q) =>
            /\ ~(CaptureAlive(p) /\ CaptureAlive(q))
            /\ ~(InferenceAlive(p) /\ InferenceAlive(q))

(***************************************************************************)
(* Steps of the two threads of a stream, as the properties name them.      *)
(***************************************************************************)
\* this step is the capture loop of p finishing an iteration
CaptureIterates(p) == capture_thread[p] = "read" /\ capture_thread'[p] # "read"

\* this step is a read of p that failed / that gave a frame
ReadFails(p)    == CaptureIterates(p) /\ fail_count'[p] = fail_count[p] + 1
ReadSucceeds(p) == CaptureIterates(p) /\ frame_counter'[p] = frame_counter[p] + 1

\* this step is the capture loop of p clearing the running flag
LoopClearsRunning(p) == CaptureIterates(p) /\ running[p] /\ ~running'[p]

\* this step is p's call of the classifier, p's Detection row, p's alert e-mail
ClassifierCalled(p) == inference_thread[p] = "predict" /\ inference_thread'[p] # "predict"
AlertRecorded(p)    == inference_thread[p] = "persist" /\ detections' # detections
NotificationSent(p) == inference_thread[p] = "email" /\ emails' # emails

\* the source of p did not open
OpenFailed(p) == capture_thread[p] = "failed"

(***************************************************************************)
(* C4.  Once stop_all has returned, a stream it stopped makes no further   *)
(* classifier call, records no alert and sends no notification.            *)
(***************************************************************************)
C4_NoWorkAfterStopAll ==
    [][\A p \in torn :
        ~ClassifierCalled(p) /\ ~AlertRecorded(p) /\ ~NotificationSent(p)]_vars

(***************************************************************************)
(* C8.  The capture loop clears the running flag exactly when the count of *)
(* consecutive failed reads reaches max_failures, and leaves the loop      *)
(* then; a failed read adds one to the count and a good read makes it 0.   *)
(***************************************************************************)
C8_FailureCeiling ==
    [][\A p \in Streams :
        /\ fail_count[p] < max_failures \/ ~running[p]
        /\ ReadFails(p) =>
              IF fail_count'[p] = max_failures
              THEN ~running'[p] /\ capture_thread'[p] = "stop"
              ELSE running'[p] = running[p] /\ capture_thread'[p] = "loop"
        /\ ReadSucceeds(p) => fail_count'[p] = 0 /\ running'[p] = running[p]
        /\ CaptureIterates(p) => ReadFails(p) \/ ReadSucceeds(p) \/ capture[p] = "None"
        /\ LoopClearsRunning(p) => ReadFails(p) /\ fail_count'[p] = max_failures]_vars

\* the ceiling reached after a good read had started the count again
C8_Witness ==
    \E p \in Streams :
        /\ fail_count[p] = max_failures
        /\ frame_counter[p] > 0
        /\ ~running[p]
        /\ capture_thread[p] = "stop"
        /\ torn = {}

(***************************************************************************)
(* C9.  The capture handle of a stream is released at most once, and       *)
(* exactly once by the time its capture thread has ended, however the      *)
(* thread's own stop() and the stop() of stop_all interleave.              *)
(***************************************************************************)
C9_ReleasedOnce ==
    \A p \in Streams :
        /\ released[p] <= 1
        /\ capture_thread[p] = "done" => released[p] = 1

(***************************************************************************)
(* C10.  A source that does not open is opened once only; its stream is    *)
(* not running, has no frame, an empty clip buffer and no detection, and   *)
(* its inference thread never reaches the classifier and ends.             *)
(***************************************************************************)
C10_OpenFailure ==
    /\ [](\A p \in Streams :
            /\ opened[p] <= 1
            /\ OpenFailed(p) =>
                  /\ opened[p] = 1
                  /\ ~running[p]
                  /\ last_frame[p] = None /\ frame_counter[p] = 0
                  /\ clip_buffer[p] = <<>> /\ frames_for_model[p] = <<>>
                  /\ inference_thread[p] \in {"loop", "sleep", "done"}
                  /\ raw[p] = <<"", 0>> /\ latest_detection[p] = <<>>
                  /\ detections = <<>> /\ emails = <<>>)
    /\ \A p \in Streams : OpenFailed(p) ~> inference_thread[p] = "done"

C10_Witness ==
    \E p \in Streams :
        /\ OpenFailed(p)
        /\ opened[p] = 1
        /\ inference_thread[p] = "done"
        /\ clip_buffer[p] = <<>>

(***************************************************************************)
(* SpecAlert: the two threads of a started stream whose source opens and   *)
(* delivers frames, with the wall clock moving on.  self.stable_required   *)
(* is read at every test of the debouncer; __init__ sets it to 1, and the  *)
(* stream is followed for every value from 1 to MaxRequired.               *)
(***************************************************************************)
InitAlert == \E r \in 1..MaxRequired : InitStartedWith(r)

NextAlert ==
    \/ \E p \in Streams : CapOpen(p, TRUE)
    \/ \E p \in Streams : CapLoop(p)
    \/ \E p \in Streams : CapRead(p, TRUE)
    \/ \E p \in Streams : InferenceStep(p)
    \/ Tick

SpecAlert == InitAlert /\ [][NextAlert]_vars

(***************************************************************************)
(* Steps of the debouncer, as the properties name them.                    *)
(***************************************************************************)
\* a non-normal label with a confidence at or above the alert threshold
Qualifies(l, c) == l # NormalLabel /\ c >= conf_threshold

\* this step is the tick of p handing raw[p] to the display and the debouncer
Observes(p) == inference_thread[p] = "post" /\ inference_thread'[p] # "post"

\* this step is the debouncer of p deciding that an alert fires
Fires(p) == Observes(p) /\ inference_thread'[p] = "persist"

\* this step is the end of the persistence step of an alert of p
Persists(p) == inference_thread[p] = "persist" /\ inference_thread'[p] # "persist"

\* the Detection rows of the camera of p that carry the time t
RecordsAt(p, t) ==
    {i \in 1..Len(detections) :
        detections[i].camera_id = camera_id[p] /\ detections[i].ts = t}

C12_AlternationNeverFires ==
    [][\A p \in Streams :
        (Observes(p) /\ Qualifies(raw[p][1], raw[p][2]) /\ pending_label[p] # raw[p][1]) =>
            /\ pending_label'[p] = raw[p][1]
            /\ pending_count'[p] = 1
            /\ required[p] > 1 =>
                  /\ ~Fires(p)
                  /\ last_alert_ts'[p] = last_alert_ts[p]
                  /\ detections' = detections]_vars

\* a label taken over from another pending label, with stable_required = 2
C12_Witness ==
    \E p \in Streams :
        /\ required[p] > 1
        /\ observed[p] # <<>>
        /\ Qualifies(observed[p][1], observed[p][2])
        /\ pending_label[p] = observed[p][1]
        /\ pending_count[p] = 1
        /\ latest_detection[p] # <<>>
        /\ detections = <<>>

(***************************************************************************)
(* SpecDisplay: one tick from the return of the classifier on, for every   *)
(* label and every confidence from 0.00 to 1.00 that it can return.  The   *)
(* stream has its first window of frames and the tick its snapshot.        *)
(***************************************************************************)
RawOutputs == {<<l, c>> : l \in Labels, c \in 0..100}

FirstWindow == [i \in 1..clip_max_len |-> i]

InitClassified ==
    /\ streams = <<[key |-> 1, val |-> 1]>>
    /\ nstreams = 1
    /\ camera_id = [p \in Streams |-> IF p = 1 THEN 1 ELSE None]
    /\ running = [p \in Streams |-> p = 1]
    /\ capture = [p \in Streams |-> IF p = 1 THEN "Open" ELSE "None"]
    /\ capture_thread = [p \in Streams |-> IF p = 1 THEN "loop" ELSE "none"]
    /\ inference_thread = [p \in Streams |-> IF p = 1 THEN "post" ELSE "none"]
    /\ fail_count = [p \in Streams |-> 0]
    /\ frame_counter = [p \in Streams |-> IF p = 1 THEN clip_max_len ELSE 0]
    /\ last_frame = [p \in Streams |-> IF p = 1 THEN clip_max_len ELSE None]
    /\ clip_buffer = [p \in Streams |-> IF p = 1 THEN FirstWindow ELSE <<>>]
    /\ frames_for_model = [p \in Streams |-> IF p = 1 THEN FirstWindow ELSE <<>>]
    /\ \E r \in RawOutputs : raw = [p \in Streams |-> IF p = 1 THEN r ELSE <<"", 0>>]
    /\ latest_detection = [p \in Streams |-> <<>>]
    /\ pending_label = [p \in Streams |-> ""]
    /\ pending_count = [p \in Streams |-> 0]
    /\ last_alert_ts = [p \in Streams |-> 0]
    /\ required = [p \in Streams |-> stable_required]
    /\ clPc = [t \in Clients |-> "idle"]
    /\ clCam = [t \in Clients |-> None]
    /\ clStream = [t \in Clients |-> None]
    /\ clIter = [t \in Clients |-> NoIter]
    /\ lastRet = Ret("get_or_create", 1, "ok", 1)
    /\ now = StartNow
    /\ detections = <<>>
    /\ emails = <<>>
    /\ opened = [p \in Streams |-> IF p = 1 THEN 1 ELSE 0]
    /\ released = [p \in Streams |-> 0]
    /\ workers = [p \in Streams |-> IF p = 1 THEN 2 ELSE 0]
    /\ torn = {}
    /\ observed = [p \in Streams |-> <<>>]
    /\ trail = [p \in Streams |-> <<>>]
    /\ viewPc = [v \in Viewers |-> "none"]
    /\ viewStream = [v \in Viewers |-> None]
    /\ viewFrame = [v \in Viewers |-> NoFrame]
    /\ viewDet = [v \in Viewers |-> <<>>]
    /\ viewOut = [v \in Viewers |-> <<>>]
    /\ drawn = {}
    /\ stale = [v \in Viewers |-> 0]
    /\ lock = [p \in Streams |-> None]
    /\ unlocked = {}
    /\ cls_lock = None
    /\ instance = None
    /\ ninstances = 0

NextDisplay ==
    \/ \E p \in Streams : InfPost(p)
    \/ \E p \in Streams, ok \in BOOLEAN : InfPersist(p, ok)
    \/ \E p \in Streams, o \in EmailOutcomes : InfEmail(p, o)

SpecDisplay == InitClassified /\ [][NextDisplay]_vars

(***************************************************************************)
(* C13.  The display detection of a tick is the raw (label, confidence) if *)
(* the label is normal and the confidence at least the display floor, or   *)
(* the label is not normal and the confidence at least the alert           *)
(* threshold; otherwise it is (normal, 0).  So the stored display          *)
(* detection is never a non-normal label below the threshold.              *)
(***************************************************************************)
C13_DisplayRemapping ==
    [][\A p \in Streams :
        /\ Observes(p) =>
              LET l == raw[p][1]
                  c == raw[p][2]
              IN  latest_detection'[p] =
                      IF \/ l = NormalLabel /\ c >= display_floor
                         \/ l # NormalLabel /\ c >= conf_threshold
                      THEN <<l, c>>
                      ELSE <<NormalLabel, 0>>
        /\ latest_detection'[p] # <<>> =>
              \/ latest_detection'[p][1] = NormalLabel
              \/ latest_detection'[p][2] >= conf_threshold]_vars

\* a non-normal label at 0.60, shown as (normal, 0)
C13_Witness ==
    \E p \in Streams :
        /\ raw[p] = <<"Robbery", 60>>
        /\ latest_detection[p] = <<NormalLabel, 0>>
        /\ inference_thread[p] = "loop"

(***************************************************************************)
(* C14.  On a tick in which the classifier returns, _maybe_log_alert gets  *)
(* the raw label and confidence and the window of frames the classifier    *)
(* got, whatever is displayed, and applies the threshold to them: a        *)
(* non-normal label below the threshold is displayed as (normal, 0) and    *)
(* resets the pending label and count.                                     *)
(***************************************************************************)
C14_DebouncerGetsRaw ==
    [][\A p \in Streams :
        Observes(p) =>
            /\ observed'[p] = <<raw[p][1], raw[p][2], frames_for_model[p]>>
            /\ raw'[p] = raw[p] /\ frames_for_model'[p] = frames_for_model[p]
            /\ (raw[p][1] # NormalLabel /\ raw[p][2] < conf_threshold) =>
                  /\ latest_detection'[p] = <<NormalLabel, 0>>
                  /\ pending_label'[p] = "" /\ pending_count'[p] = 0
                  /\ ~Fires(p)
            /\ Qualifies(raw[p][1], raw[p][2]) => pending_label'[p] = raw[p][1]]_vars

\* the debouncer got (Robbery, 0.60); the display is (normal, 0)
C14_Witness ==
    \E p \in Streams :
        /\ observed[p] = <<"Robbery", 60, frames_for_model[p]>>
        /\ latest_detection[p] = <<NormalLabel, 0>>
        /\ pending_count[p] = 0
        /\ Len(frames_for_model[p]) = clip_max_len

(***************************************************************************)
(* Steps of a tick of the inference loop, as the properties name them.     *)
(***************************************************************************)
\* this step is the tick of p looking at the buffer after its sleep
TakesSnapshot(p) == inference_thread[p] = "sleep" /\ inference_thread'[p] # "sleep"

\* this step is the classifier raising in the tick of p
ClassifierRaises(p) == ClassifierCalled(p) /\ inference_thread'[p] # "post"

\* the display detection and the state of the debouncer of p
displayAndDebounce(p) ==
    <<latest_detection[p], pending_label[p], pending_count[p], last_alert_ts[p]>>

(***************************************************************************)
(* C15.  A tick that finds fewer than clip_max_len frames in the buffer    *)
(* goes back to the loop test without a call of the classifier, and leaves *)
(* the display detection and the state of the debouncer as they were.      *)
(***************************************************************************)
C15_ShortBufferSkipsTick ==
    [][\A p \in Streams :
        (TakesSnapshot(p) /\ Len(clip_buffer[p]) < clip_max_len) =>
            /\ inference_thread'[p] = "loop"
            /\ displayAndDebounce(p)' = displayAndDebounce(p)
            /\ frames_for_model'[p] = frames_for_model[p]
            /\ raw'[p] = raw[p]
            /\ detections' = detections /\ emails' = emails]_vars

\* a tick that has slept and finds a buffer with frames, but too few
C15_Witness ==
    \E p \in Streams :
        /\ inference_thread[p] = "sleep"
        /\ clip_buffer[p] # <<>>
        /\ Len(clip_buffer[p]) < clip_max_len
        /\ running[p]

(***************************************************************************)
(* C16.  An exception of the classifier ends the tick only: the display    *)
(* detection, the state of the debouncer and the running flag stay as they *)
(* were, and the thread is back at the loop test.                          *)
(***************************************************************************)
C16_ClassifierFailureContained ==
    [][\A p \in Streams :
        /\ ClassifierCalled(p) => inference_thread'[p] \in {"post", "loop"}
        /\ ClassifierRaises(p) =>
              /\ inference_thread'[p] = "loop"
              /\ displayAndDebounce(p)' = displayAndDebounce(p)
              /\ running'[p] = running[p]
              /\ detections' = detections /\ emails' = emails
        /\ (inference_thread[p] = "loop" /\ running[p] /\ inference_thread'[p] # "loop")
              => inference_thread'[p] = "sleep"]_vars

\* the classifier was called and has never returned a value, and the loop
\* is in its next tick
C16_Witness ==
    \E p \in Streams :
        /\ frames_for_model[p] # <<>>
        /\ raw[p] = <<"", 0>>
        /\ inference_thread[p] = "sleep"
        /\ running[p]
        /\ latest_detection[p] = <<>>

(***************************************************************************)
(* SpecBuffer: the capture thread of a started stream on a source long     *)
(* enough to overflow the clip buffer, each read succeeding or failing,    *)
(* with the sign-outs of one session in any interleaving.                  *)
(***************************************************************************)
LongRun == 2 * clip_max_len + 2

NextBuffer ==
    \/ \E p \in Streams, ok \in BOOLEAN : CapOpen(p, ok)
    \/ \E p \in Streams : CapLoop(p)
    \/ \E p \in Streams, ok \in BOOLEAN : CapReadUpTo(p, ok, LongRun)
    \/ \E p \in Streams : CaptureExit(p)
    \/ StopAll(Operator)

SpecBuffer == InitStarted /\ [][NextBuffer]_vars

(***************************************************************************)
(* C17.  The clip buffer never holds more than 2 * clip_max_len frames,    *)
(* and it holds the frames captured last, in the order of their capture.   *)
(***************************************************************************)
C17_ClipBufferBound ==
    \A p \in Streams :
        LET n == Len(clip_buffer[p]) IN
        /\ n <= 2 * clip_max_len
        /\ n = IF frame_counter[p] < 2 * clip_max_len
               THEN frame_counter[p] ELSE 2 * clip_max_len
        /\ \A i \in 1..n : clip_buffer[p][i] = frame_counter[p] - n + i

\* a full buffer from which the two oldest frames have gone
C17_Witness ==
    \E p \in Streams :
        /\ frame_counter[p] = 2 * clip_max_len + 2
        /\ Len(clip_buffer[p]) = 2 * clip_max_len
        /\ clip_buffer[p][1] = 3
        /\ last_frame[p] = frame_counter[p]

\* the state of the debouncer of p and the flag of its loops
debounceAndRunning(p) ==
    <<pending_label[p], pending_count[p], last_alert_ts[p], required[p], running[p]>>

\* this step is the persistence step of an alert of p failing
PersistFails(p) == Persists(p) /\ detections' = detections

\* this step is the end of the notification step of an alert of p
Notifies(p) == inference_thread[p] = "email" /\ inference_thread'[p] # "email"

(***************************************************************************)
(* C18.  The alert that fires sets the last-alert time to the time of the  *)
(* firing; a persistence step that fails leaves it there, leaves the       *)
(* pending label and count and the running flag as they are, and returns   *)
(* the thread to the top of its loop; an observation inside the cooldown   *)
(* of an alert whose row was never written fires nothing and adds no row.  *)
(***************************************************************************)
C18_PersistFailureKeepsDebounce ==
    [][\A p \in Streams :
        /\ Fires(p) => last_alert_ts'[p] = now
        /\ inference_thread[p] = "persist" => last_alert_ts[p] <= now
        /\ PersistFails(p) =>
              /\ debounceAndRunning(p)' = debounceAndRunning(p)
              /\ last_alert_ts'[p] >= StartNow
              /\ inference_thread'[p] = "loop"
        /\ (/\ Observes(p)
            /\ RecordsAt(p, last_alert_ts[p]) = {}
            /\ last_alert_ts[p] >= StartNow
            /\ now - last_alert_ts[p] < alert_cooldown)
                => /\ ~Fires(p)
                   /\ detections' = detections
                   /\ last_alert_ts'[p] = last_alert_ts[p]]_vars

\* an alert whose row was never written, and a later observation of its label
\* inside its cooldown, the loop still running
C18_Witness ==
    \E p \in Streams :
        /\ last_alert_ts[p] >= StartNow
        /\ detections = <<>>
        /\ now - last_alert_ts[p] < alert_cooldown
        /\ pending_count[p] > required[p]
        /\ observed[p] # <<>>
        /\ inference_thread[p] = "loop"
        /\ running[p]

(***************************************************************************)
(* C19.  The notification step of an alert, whether the message is sent,   *)
(* skipped or fails, leaves the Detection rows, the row of the alert among *)
(* them, the debouncer and the running flag as they are, and returns the   *)
(* thread to the top of its loop; only a sent message is added.            *)
(***************************************************************************)
C19_NotificationNeverAffectsAlert ==
    [][\A p \in Streams :
        Notifies(p) =>
            /\ detections' = detections
            /\ Cardinality(RecordsAt(p, last_alert_ts[p])') = 1
            /\ debounceAndRunning(p)' = debounceAndRunning(p)
            /\ inference_thread'[p] = "loop"
            /\ \/ emails' = emails
               \/ /\ Len(emails') = Len(emails) + 1
                  /\ emails'[Len(emails')].detection_id = Len(detections)]_vars

\* two alerts on record, one notified and one not, the loop back at its top
C19_Witness ==
    \E p \in Streams :
        /\ Len(detections) = 2
        /\ Len(emails) = 1
        /\ Cardinality(RecordsAt(p, last_alert_ts[p])) = 1
        /\ inference_thread[p] = "loop"
        /\ running[p]

(***************************************************************************)
(* SpecViewers: the two threads of a started stream, whose source opens or *)
(* does not, and the generators of the viewers of its frames, which a      *)
(* viewer may abandon at any chunk.                                        *)
(***************************************************************************)
ViewerStep(v) ==
    \/ \E p \in Streams : FramesBegin(v, p)
    \/ FramesTest(v)
    \/ FramesCopy(v)
    \/ FramesOverlay(v)
    \/ \E ret \in BOOLEAN : FramesEncode(v, ret)
    \/ FramesResume(v)
    \/ FramesClose(v)

\* what the classifier tells in this specification: a crime, sure enough to
\* be displayed and to fire an alert
Shown == {[raised |-> FALSE, label |-> "Robbery", conf |-> 80]}

NextViewers ==
    \/ \E p \in Streams, ok \in BOOLEAN : CapOpen(p, ok)
    \/ \E p \in Streams : CapLoop(p)
    \/ \E p \in Streams : CapRead(p, TRUE)
    \/ \E p \in Streams : InfLoop(p)
    \/ \E p \in Streams : InfSnapshot(p)
    \/ \E p \in Streams, out \in Shown : InfPredict(p, out)
    \/ \E p \in Streams : InfPost(p)
    \/ \E p \in Streams : InfPersist(p, TRUE)
    \/ \E p \in Streams : InfEmail(p, "sent")
    \/ \E v \in Viewers : ViewerStep(v)

SpecViewers == InitStarted /\ [][NextViewers]_vars

\* what a stream holds for its viewers and its debouncer, with the pixels of
\* the frames it holds
sharedWithViewers(p) ==
    <<last_frame[p], clip_buffer[p], latest_detection[p], pending_label[p],
      pending_count[p], last_alert_ts[p], running[p], drawn>>

\* this step is a step of the generator of v
Views(v) == viewPc'[v] # viewPc[v]

(***************************************************************************)
(* C20.  No step of a frames() generator, the close by a viewer who leaves *)
(* included, changes the latest frame, the clip buffer, the display        *)
(* detection, the debouncer or the running flag of any stream, or the      *)
(* pixels of a frame the pipeline holds; the frame a generator draws on is *)
(* its own copy, it is the latest frame at the step that took it under the *)
(* lock together with the detection, and the chunk yielded is that copy    *)
(* with the text of that detection.                                        *)
(***************************************************************************)
C20_FanOutReadOnly ==
    [][\A v \in Viewers :
        /\ Views(v) => \A p \in Streams : sharedWithViewers(p)' = sharedWithViewers(p)
        /\ viewPc'[v] \in {"overlay", "encode"} => viewFrame'[v].own
        /\ (viewPc[v] = "lock" /\ viewPc'[v] = "overlay") =>
              /\ viewFrame'[v].of = last_frame[viewStream[v]]
              /\ viewDet'[v] = latest_detection[viewStream[v]]
        /\ (viewPc[v] = "overlay" /\ Views(v)) =>
              viewFrame'[v] = [viewFrame[v] EXCEPT !.text = OverlayText(viewDet[v])]
        /\ viewPc'[v] = "yielded" /\ Views(v) =>
              viewOut'[v] = <<viewFrame[v].of, OverlayText(viewDet[v])>>]_vars

\* two viewers of one running stream: one holds a chunk that shows a detection
\* on a frame the pipeline has since replaced, the other has left
C20_Witness ==
    \E v, w \in Viewers :
        /\ v # w
        /\ viewStream[v] = viewStream[w]
        /\ viewPc[v] = "yielded"
        /\ viewOut[v][2] # <<"Predicting...">>
        /\ viewPc[w] = "done"
        /\ running[viewStream[w]]
        /\ last_frame[viewStream[v]] > viewOut[v][1]

(***************************************************************************)
(* SpecFanOut: the capture thread of a started stream up to the end of its *)
(* loop, the generators of its viewers and the sign-out of one session, in *)
(* any interleaving.  In SpecFanOutFair each response keeps asking its     *)
(* generator for chunks, or closes it.                                     *)
(***************************************************************************)
NextFanOut ==
    \/ \E p \in Streams, ok \in BOOLEAN : CapOpen(p, ok)
    \/ \E p \in Streams : CapLoop(p)
    \/ \E p \in Streams : CapRead(p, TRUE)
    \/ \E v \in Viewers : ViewerStep(v)
    \/ StopAll(Operator)

SpecFanOut == InitStarted /\ [][NextFanOut]_vars

SpecFanOutFair ==
    /\ SpecFanOut
    /\ \A v \in Viewers : WF_vars(ViewerStep(v))

\* generator v has started and has not ended
Active(v) == viewPc[v] \notin {"none", "done"}

(***************************************************************************)
(* C21.  A frames() generator ends only at its test of the running flag,   *)
(* with the flag false, or when its viewer closes it; at the test with the *)
(* flag true it goes on.  It yields at most one chunk with the flag false, *)
(* and once the flag is false every active generator ends.                 *)
(***************************************************************************)
C21_EndsOnlyWhenStopped ==
    /\ [][\A v \in Viewers :
            /\ (Active(v) /\ ~Active(v)') =>
                  \/ viewPc[v] = "test" /\ ~running[viewStream[v]]
                  \/ viewPc[v] = "yielded"
            /\ (viewPc[v] = "test" /\ Views(v)) =>
                  viewPc'[v] = IF running[viewStream[v]] THEN "lock" ELSE "done"]_vars
    /\ [](\A v \in Viewers : stale[v] <= 1)
    /\ \A v \in Viewers :
            (Active(v) /\ ~running[viewStream[v]]) ~> ~Active(v)

\* a generator that yielded one chunk after the stream was stopped, and then
\* ended at its test of the flag
C21_Witness ==
    \E v \in Viewers :
        /\ stale[v] = 1
        /\ viewPc[v] = "done"
        /\ ~running[viewStream[v]]
        /\ last_frame[viewStream[v]] # None

(***************************************************************************)
(* SpecStats: the two threads of a started stream, and status queries for  *)
(* its camera, each a lookup of the stream and the reading of its display  *)
(* detection, in any interleaving.                                         *)
(***************************************************************************)
CameraStats(t) ==
    \/ \E c \in Cameras : HasKey(streams, c) /\ GocCheck(t, c)
    \/ GocReturn(t)
    \/ StatsBegin(t)
    \/ StatsTest(t)
    \/ StatsRead(t)

\* what the classifier tells in this specification: a crime sure enough to be
\* displayed, or one that is displayed as normal
Told == Shown \cup {[raised |-> FALSE, label |-> "Robbery", conf |-> 60]}

NextStats ==
    \/ \E p \in Streams : CapOpen(p, TRUE)
    \/ \E p \in Streams : CapLoop(p)
    \/ \E p \in Streams : CapRead(p, TRUE)
    \/ \E p \in Streams : InfLoop(p)
    \/ \E p \in Streams : InfSnapshot(p)
    \/ \E p \in Streams, out \in Told : InfPredict(p, out)
    \/ \E p \in Streams : InfPost(p)
    \/ \E p \in Streams : InfPersist(p, TRUE)
    \/ \E p \in Streams : InfEmail(p, "sent")
    \/ \E t \in Clients : CameraStats(t)

SpecStats == InitStarted /\ [][NextStats]_vars

\* this step is handler t returning from camera_stats
StatsReturns(t) == clPc[t] \in {"stats_test", "stats_read"} /\ clPc'[t] = "idle"

(***************************************************************************)
(* C22.  camera_stats returns ("Unknown", 0) exactly when the display      *)
(* detection of its stream is still None, and else the display detection   *)
(* as it is at the return; the display detection is None until the first   *)
(* tick of the inference loop that completes, and each such tick sets it   *)
(* to the remapped value of what the classifier said.                      *)
(***************************************************************************)
C22_StatsReturnsDisplay ==
    [][/\ \A t \in Clients :
            StatsReturns(t) =>
                LET p == clStream[t] IN
                /\ lastRet'.op = "stats" /\ lastRet'.cam = camera_id[p]
                /\ (lastRet'.label = "Unknown") <=> (latest_detection[p] = <<>>)
                /\ latest_detection[p] = <<>> => lastRet'.confidence = 0
                /\ latest_detection[p] # <<>> =>
                      <<lastRet'.label, lastRet'.confidence>> = latest_detection[p]
       /\ \A p \in Streams :
            /\ latest_detection'[p] # latest_detection[p] => Observes(p)
            /\ Observes(p) =>
                  /\ latest_detection'[p] = PostProcessLabel(raw[p][1], raw[p][2])
                  /\ latest_detection'[p] # <<>>
            /\ latest_detection[p] = <<>> => observed[p] = <<>>]_vars

\* a status query answered with the display value, normal, while the last word
\* of the classifier was a crime below the threshold
C22_Witness ==
    /\ lastRet.op = "stats"
    /\ lastRet.label = NormalLabel
    /\ lastRet.confidence = 0
    /\ raw[lastRet.val][1] # NormalLabel
    /\ latest_detection[lastRet.val] = <<NormalLabel, 0>>

(***************************************************************************)
(* SpecInstance: request handlers that get the manager, its construction   *)
(* succeeding or failing, and then look streams up or create them, in any  *)
(* interleaving.  No method of the manager runs before there is one.       *)
(***************************************************************************)
GetInstance(t) ==
    \/ GiAcquire(t)
    \/ GiTest(t)
    \/ \E ok \in BOOLEAN : GiNew(t, ok)
    \/ GiReturn(t)

NextInstance ==
    \/ \E t \in Clients : GetInstance(t)
    \/ \E t \in Clients : instance # None /\ GetOrCreate(t)

SpecInstance == Init /\ [][NextInstance]_vars

\* this step is handler t returning from get_instance with the manager
GetInstanceReturns(t) == clPc[t] = "gi_return" /\ clPc'[t] = "idle"

(***************************************************************************)
(* C23.  At most one CameraManager is ever constructed: _instance, once    *)
(* set, is never set again, and every call of get_instance that returns    *)
(* returns that one object.                                                *)
(***************************************************************************)
C23_OneManager ==
    [][/\ ninstances <= 1
       /\ ninstances' <= 1
       /\ instance # None => instance' = instance
       /\ \A t \in Clients :
            GetInstanceReturns(t) =>
                /\ lastRet' = Ret("get_instance", None, "ok", instance)
                /\ instance = ninstances
                /\ instance # None]_vars

\* two handlers called get_instance before there was a manager: one has
\* constructed it and returned, the other is about to return the same one
C23_Witness ==
    \E t, u \in Clients :
        /\ t # u
        /\ ninstances = 1
        /\ lastRet = Ret("get_instance", None, "ok", instance)
        /\ clPc[t] = "idle"
        /\ clPc[u] = "gi_return"

(***************************************************************************)
(* SpecDebounce: the inference thread of a stream whose buffer holds its   *)
(* first clip_max_len frames, for each value of stable_required up to      *)
(* MaxRequired, with the clock; the observations are kept in the trail.    *)
(***************************************************************************)
InitBuffered(r) ==
    /\ streams = <<[key |-> 1, val |-> 1]>>
    /\ nstreams = 1
    /\ camera_id = [p \in Streams |-> IF p = 1 THEN 1 ELSE None]
    /\ running = [p \in Streams |-> p = 1]
    /\ capture = [p \in Streams |-> IF p = 1 THEN "Open" ELSE "None"]
    /\ capture_thread = [p \in Streams |-> IF p = 1 THEN "loop" ELSE "none"]
    /\ inference_thread = [p \in Streams |-> IF p = 1 THEN "loop" ELSE "none"]
    /\ fail_count = [p \in Streams |-> 0]
    /\ frame_counter = [p \in Streams |-> IF p = 1 THEN clip_max_len ELSE 0]
    /\ last_frame = [p \in Streams |-> IF p = 1 THEN clip_max_len ELSE None]
    /\ clip_buffer = [p \in Streams |-> IF p = 1 THEN FirstWindow ELSE <<>>]
    /\ frames_for_model = [p \in Streams |-> <<>>]
    /\ raw = [p \in Streams |-> <<"", 0>>]
    /\ latest_detection = [p \in Streams |-> <<>>]
    /\ pending_label = [p \in Streams |-> ""]
    /\ pending_count = [p \in Streams |-> 0]
    /\ last_alert_ts = [p \in Streams |-> 0]
    /\ required = [p \in Streams |-> r]
    /\ clPc = [t \in Clients |-> "idle"]
    /\ clCam = [t \in Clients |-> None]
    /\ clStream = [t \in Clients |-> None]
    /\ clIter = [t \in Clients |-> NoIter]
    /\ lastRet = Ret("get_or_create", 1, "ok", 1)
    /\ now = StartNow
    /\ detections = <<>>
    /\ emails = <<>>
    /\ opened = [p \in Streams |-> IF p = 1 THEN 1 ELSE 0]
    /\ released = [p \in Streams |-> 0]
    /\ workers = [p \in Streams |-> IF p = 1 THEN 2 ELSE 0]
    /\ torn = {}
    /\ observed = [p \in Streams |-> <<>>]
    /\ trail = [p \in Streams |-> <<>>]
    /\ viewPc = [v \in Viewers |-> "none"]
    /\ viewStream = [v \in Viewers |-> None]
    /\ viewFrame = [v \in Viewers |-> NoFrame]
    /\ viewDet = [v \in Viewers |-> <<>>]
    /\ viewOut = [v \in Viewers |-> <<>>]
    /\ drawn = {}
    /\ stale = [v \in Viewers |-> 0]
    /\ lock = [p \in Streams |-> None]
    /\ unlocked = {}
    /\ cls_lock = None
    /\ instance = None
    /\ ninstances = 0

InitDebounce == \E r \in 1..MaxRequired : InitBuffered(r)

NextDebounce ==
    \/ \E p \in Streams : InfLoop(p)
    \/ \E p \in Streams : InfSnapshot(p)
    \/ \E p \in Streams, out \in Predictions : InfPredict(p, out)
    \/ \E p \in Streams : InfPostNoted(p)
    \/ \E p \in Streams, ok \in BOOLEAN : InfPersist(p, ok)
    \/ \E p \in Streams, o \in EmailOutcomes : InfEmail(p, o)
    \/ Tick

SpecDebounce == InitDebounce /\ [][NextDebounce]_vars

\* this step is the debouncer of p taking an observation that does not qualify
Resets(p) == Observes(p) /\ ~Qualifies(raw[p][1], raw[p][2])

(***************************************************************************)
(* C24.  An observation whose label is normal or whose confidence is below *)
(* the threshold sets the pending label to None and the pending count to   *)
(* 0, fires no alert, adds no row and leaves the last-alert time as it is. *)
(***************************************************************************)
C24_DebouncerReset ==
    [][\A p \in Streams :
        Resets(p) =>
            /\ pending_label'[p] = ""
            /\ pending_count'[p] = 0
            /\ ~Fires(p)
            /\ inference_thread'[p] = "loop"
            /\ last_alert_ts'[p] = last_alert_ts[p]
            /\ detections' = detections /\ emails' = emails]_vars

\* a reset that came after an alert and after a pending observation
C24_Witness ==
    \E p \in Streams :
        /\ Len(trail[p]) >= 2
        /\ trail[p][Len(trail[p]) - 1] # ""
        /\ trail[p][Len(trail[p])] = ""
        /\ pending_count[p] = 0
        /\ pending_label[p] = ""
        /\ last_alert_ts[p] >= StartNow
        /\ inference_thread[p] = "loop"

\* the length of the run of one and the same qualifying label that ends a trail
RECURSIVE RunLength(_)
RunLength(tr) ==
    IF tr = <<>> \/ tr[Len(tr)] = ""
    THEN 0
    ELSE IF Len(tr) > 1 /\ tr[Len(tr) - 1] = tr[Len(tr)]
    THEN 1 + RunLength(SubSeq(tr, 1, Len(tr) - 1))
    ELSE 1

(***************************************************************************)
(* C25.  The pending count is the length of the run of identical           *)
(* qualifying observations that ends the observations so far, and the      *)
(* pending label is the label of that run; an alert fires only on an       *)
(* observation that makes the run at least stable_required long.           *)
(***************************************************************************)
C25_StabilityPrecondition ==
    /\ [](\A p \in Streams :
            /\ pending_count[p] = RunLength(trail[p])
            /\ pending_count[p] > 0 => pending_label[p] = trail[p][Len(trail[p])]
            /\ pending_count[p] = 0 => pending_label[p] = "")
    /\ [][\A p \in Streams :
            Fires(p) =>
                /\ pending_count'[p] >= required[p]
                /\ RunLength(trail'[p]) >= required[p]
                /\ Qualifies(raw[p][1], raw[p][2])]_vars

\* with stable_required = 2: an alert later than the first there could be,
\* fired by the second observation of a run
C25_Witness ==
    \E p \in Streams :
        /\ required[p] = 2
        /\ inference_thread[p] = "persist"
        /\ pending_count[p] = 2
        /\ trail[p] = <<raw[p][1], raw[p][1]>>
        /\ last_alert_ts[p] > StartNow

QuietTick(p) ==
    \/ TakesSnapshot(p) /\ Len(clip_buffer[p]) < clip_max_len
    \/ ClassifierRaises(p)
    \/ Observes(p) /\ ~Qualifies(raw[p][1], raw[p][2])
    \/ Observes(p) /\ pending_count'[p] < required[p]
    \/ Observes(p) /\ now - last_alert_ts[p] < alert_cooldown

(***************************************************************************)
(* C26.  The last-alert time changes only in the step that fires an alert, *)
(* which sets it to the time of that step: a tick that is skipped, that    *)
(* fails in the classifier, or whose observation does not qualify, is not  *)
(* yet stable or falls inside the cooldown, leaves it as it is, and so     *)
(* does every step of the persistence and of the notification.             *)
(***************************************************************************)
C26_TimestampOnlyOnFire ==
    [][\A p \in Streams :
        /\ last_alert_ts'[p] # last_alert_ts[p] => Fires(p) /\ last_alert_ts'[p] = now
        /\ QuietTick(p) =>
              /\ last_alert_ts'[p] = last_alert_ts[p]
              /\ inference_thread'[p] = "loop"
              /\ detections' = detections]_vars

\* with stable_required = 2, after an alert: the cooldown is over, and a
\* qualifying observation that is the first of its run has left the time alone
C26_Witness ==
    \E p \in Streams :
        /\ required[p] = 2
        /\ last_alert_ts[p] >= StartNow
        /\ now - last_alert_ts[p] >= alert_cooldown
        /\ observed[p] # <<>>
        /\ Qualifies(observed[p][1], observed[p][2])
        /\ pending_count[p] = 1
        /\ inference_thread[p] = "loop"

(***************************************************************************)
(* SpecWindow: both threads of a started stream on a source long enough to *)
(* overflow the clip buffer; the source opens and its reads succeed, the   *)
(* classifier answers.                                                     *)
(***************************************************************************)
NextWindow ==
    \/ \E p \in Streams : CapOpen(p, TRUE)
    \/ \E p \in Streams : CapLoop(p)
    \/ \E p \in Streams : CapReadUpTo(p, TRUE, LongRun)
    \/ \E p \in Streams : InfLoop(p)
    \/ \E p \in Streams : InfSnapshot(p)
    \/ \E p \in Streams, out \in Told : InfPredict(p, out)
    \/ \E p \in Streams : InfPost(p)
    \/ \E p \in Streams : InfPersist(p, TRUE)
    \/ \E p \in Streams : InfEmail(p, "sent")

SpecWindow == InitStarted /\ [][NextWindow]_vars

\* the clip_max_len frames captured last when the latest frame is frame n
LastWindow(n) == [i \in 1..clip_max_len |-> n - clip_max_len + i]

(***************************************************************************)
(* C28.  A tick that calls the classifier passes it exactly clip_max_len   *)
(* frames: the frames captured last at the moment of the snapshot, in the  *)
(* order of their capture, which are the tail of the clip buffer as it is  *)
(* at that moment; the frames passed are those of the snapshot, whatever   *)
(* the capture thread has stored since.                                    *)
(***************************************************************************)
C28_SnapshotWindow ==
    [][\A p \in Streams :
        /\ TakesSnapshot(p) /\ inference_thread'[p] = "predict" =>
              /\ Len(frames_for_model'[p]) = clip_max_len
              /\ frames_for_model'[p] = LastWindow(last_frame[p])
              /\ \A i \in 1..clip_max_len :
                    frames_for_model'[p][i] =
                        clip_buffer[p][Len(clip_buffer[p]) - clip_max_len + i]
              /\ clip_buffer'[p] = clip_buffer[p]
        /\ ClassifierCalled(p) =>
              /\ Len(frames_for_model[p]) = clip_max_len
              /\ \E n \in clip_max_len..last_frame[p] :
                    frames_for_model[p] = LastWindow(n)
              /\ frames_for_model'[p] = frames_for_model[p]]_vars

\* the classifier about to be called with the tail of a buffer that has lost
\* its oldest frames, while the capture thread has stored one frame more
C28_Witness ==
    \E p \in Streams :
        /\ inference_thread[p] = "predict"
        /\ Len(clip_buffer[p]) = 2 * clip_max_len
        /\ clip_buffer[p][1] > 2
        /\ frames_for_model[p] = LastWindow(last_frame[p] - 1)

\* the attributes of a stream that its threads and the requests share
SharedState == {"_last_frame", "clip_buffer", "latest_detection",
                "_pending_label", "_pending_count", "_last_alert_ts"}

(***************************************************************************)
(* C29.  No write of the latest frame, of the clip buffer, of the display  *)
(* detection or of the state of the debouncer is made outside self.lock,   *)
(* and no read of the display detection by frames() or by camera_stats is. *)
(***************************************************************************)
C29_LockDiscipline ==
    \A a \in unlocked :
        /\ a[3] = "write" => a[2] \notin SharedState
        /\ a[3] = "read" /\ a[1] \in {"frames", "camera_stats"} =>
              a[2] # "latest_detection"

\* the inference thread of p is between its snapshot and the end of its tick:
\* in predict_clip, in the assignments that follow or in the effects of an alert
Busy(p) == inference_thread[p] \in {"predict", "post", "persist", "email"}

(***************************************************************************)
(* C30.  While the inference thread is in the classifier, or in what       *)
(* follows its answer up to the end of the alert, it does not hold         *)
(* self.lock: the capture thread that has read a frame can store it, and a *)
(* frames() generator that is at its copy can make it.                     *)
(***************************************************************************)
C30_InferenceNeverBlocks ==
    \A p \in Streams :
        Busy(p) =>
            /\ lock[p] = None
            /\ capture_thread[p] = "read" /\ capture[p] = "Open"
                    /\ frame_counter[p] < MaxFrames =>
                  ENABLED CapRead(p, TRUE)
            /\ \A v \in Viewers :
                  viewPc[v] = "lock" /\ viewStream[v] = p => ENABLED FramesCopy(v)

\* the classifier running on a snapshot, a frame stored since by the capture
\* thread and copied by a viewer
C30_Witness ==
    \E p \in Streams, v \in Viewers :
        /\ inference_thread[p] = "predict"
        /\ last_frame[p] > frames_for_model[p][clip_max_len]
        /\ viewStream[v] = p
        /\ viewFrame[v].of = last_frame[p]

\* the thread of p comes to the call of _send_alert_email
ReachesNotification(p) == inference_thread[p] # "email" /\ inference_thread'[p] = "email"

\* row i of the Detection table is the row of an alert of p with this label
RowOf(i, cam, label) ==
    /\ i \in 1..Len(detections)
    /\ detections[i].camera_id = cam
    /\ detections[i].crime_label = label

C33_NoOrphanedStream ==
    \A p \in Streams : running[p] => p \in Values(streams)

(***************************************************************************)
(* C34.  The capture thread that is about to call self.capture.read() has  *)
(* an open handle to call it on, neither released nor set to None by a     *)
(* stop() of stop_all since the test of its loop, and the thread never     *)
(* dies of an exception.                                                   *)
(***************************************************************************)
C34_ReadsOpenHandle ==
    \A p \in Streams :
        /\ capture_thread[p] = "read" => capture[p] = "Open"
        /\ capture_thread[p] # "crashed"

(***************************************************************************)
(* SpecCancel: both threads of a started stream and the sign-outs of one   *)
(* session.  SpecCancelFair: each thread is run again and again, a call of *)
(* read() or of the classifier returning, and a stop_all that has begun    *)
(* goes on to its end.                                                     *)
(***************************************************************************)
CaptureStep(p) ==
    \/ \E ok \in BOOLEAN : CapOpen(p, ok)
    \/ CapLoop(p)
    \/ CapRead(p, TRUE)
    \/ CaptureExit(p)

\* the classifier tells a crime sure enough for an alert only while the run of
\* such answers is shorter than MaxPending, the longest run followed
InferenceTick(p) ==
    \/ InfLoop(p)
    \/ InfSnapshot(p)
    \/ \E out \in Told :
          /\ Qualifies(out.label, out.conf) => pending_count[p] < MaxPending
          /\ InfPredict(p, out)
    \/ InfPost(p)
    \/ InfPersist(p, TRUE)
    \/ InfEmail(p, "sent")

StopAllGoesOn(t) ==
    \/ SaNext(t)
    \/ SaStopEnter(t)
    \/ SaStopRelease(t)
    \/ SaStopClear(t)
    \/ SaClear(t)

NextCancel ==
    \/ \E p \in Streams : CaptureStep(p)
    \/ \E p \in Streams : InferenceTick(p)
    \/ StopAll(Operator)

SpecCancel == InitStarted /\ [][NextCancel]_vars

SpecCancelFair ==
    /\ SpecCancel
    /\ \A p \in Streams : WF_vars(CaptureStep(p)) /\ WF_vars(InferenceTick(p))
    /\ WF_vars(StopAllGoesOn(Operator))

\* the threads of p were started and its flag is false
Cancelled(p) == workers[p] > 0 /\ ~running[p]

OpenAgain(t) ==
    \/ \E c \in Cameras : (\E p \in Streams : camera_id[p] = c) /\ GocCheck(t, c)
    \/ GocReturn(t)
    \/ GocRegister(t)
    \/ GocStart(t)

NextRecreate ==
    \/ OpenAgain(Operator)
    \/ StopAll(Operator)
    \/ \E p \in Streams : CapOpen(p, TRUE)
    \/ \E p \in Streams : CapLoop(p)
    \/ \E p \in Streams : CapRead(p, TRUE)
    \/ \E p \in Streams : InfLoop(p)
    \/ \E p \in Streams : InfSnapshot(p)
    \/ \E p \in Streams, out \in Told \ Shown : InfPredict(p, out)
    \/ \E p \in Streams : InfPost(p)

SpecRecreate == InitStarted /\ [][NextRecreate]_vars

\* the inference thread of p is inside self.model.predict_clip
InClassifier(p) == inference_thread[p] = "predict"

(***************************************************************************)
(* C31.  No two streams made for the same camera, a stopped one and its    *)
(* replacement, are inside the classifier at the same time.                *)
(***************************************************************************)
C31_InferenceSerialized ==
    \A p, q \in Streams :
        (p # q /\ camera_id[p] # None /\ camera_id[p] = camera_id[q]) =>
            ~(InClassifier(p) /\ InClassifier(q))

====
